---- MODULE Spec2Model ----
(***************************************************************************)
(* Model of the comparison session of kicad-snapshot's MainWindow           *)
(* (src/src/kicad_snapshot/__main__.py): the temporary directories of a     *)
(* comparison, the render cache below them, the status map, the            *)
(* interactive selection path on the GUI thread and the precache worker    *)
(* threads, one per started comparison.                                    *)
(*                                                                         *)
(* Threads are numbered: GuiThread is the Qt main thread, worker w is the   *)
(* thread started by the w-th comparison.  A comparison's temporary        *)
(* directories are named by the number of the comparison that made them.   *)
(* A render target is named by its key; key 1 is a schematic sheet, key 2  *)
(* the whole board of a .kicad_pcb, the keys above BoardKey its layers.    *)
(* A comparison is opened only when a kicad-cli was found (line 3152), so   *)
(* cli_candidate is not None throughout.                                   *)
(***************************************************************************)
EXTENDS Integers, Sequences, FiniteSets, TLC

\* ---- bounds of the model ----
MaxSessions == 2      \* comparisons opened in one run of the program
NumKeys == 2          \* distinct render targets over all comparisons
MaxSelects == 2       \* selections the user makes by hand
MaxSide == 2          \* width and height of a bitmap, in pixels
NumChars == 2         \* characters a path is written with
MaxPathLen == 2       \* characters of a path
MaxFiles == 3         \* files of a FileSet
NumContents == 2      \* distinct file contents
MaxNameLen == 3       \* pieces of an archive entry's name
MaxEntries == 2       \* entries of an archive, lines of a git listing
MaxStamp == 2         \* distinct timestamps of snapshots

\* ---- names ----
GuiThread == 0        \* the Qt main thread; workers are 1..MaxSessions
NoRoot == 0           \* compare_*_root is None, _compare_tmp_*_obj is None
BoardKey == 2         \* the whole-board target; 1 is a sheet, above are layers

Sessions == 1..MaxSessions
Threads == 0..MaxSessions
Keys == 1..NumKeys
Terminal == {"same", "diff", "error"}
Verdicts == {"same", "diff"}

VARIABLES
    ncompare,                 \* comparisons opened so far
    compare_maps,             \* keys the loaded before/after maps give rise to
    compare_tmp_obj,          \* session of the live TemporaryDirectory objects, or NoRoot
    compare_render_root,      \* session the three *_root paths point into, or NoRoot
    dirs,                     \* sessions whose render directory exists on disk
    srcs,                     \* srcs[s]: documents present below the before/after dirs of s
    files,                    \* files[s][k]: "none", or the verdict of the three PNGs cached in s
    compare_targets,          \* sequence of keys
    compare_target_status,    \* key -> status, "absent" when the dict has no such key
    compare_render_cache,     \* keys whose three QImages are held in memory
    currentRow,               \* compare_item_list.currentRow(), 0 for none
    compare_precache_active,
    compare_precache_stop,    \* the threading.Event
    compare_precache_thread,  \* worker the handle refers to, NoRoot for None
    compare_render_lock,      \* set of threads holding it (empty or one)
    gpc, gop, gret,           \* GUI thread: position, running handler, continuation
    wpc, widx, wtargets,      \* workers: position, loop index, the list copied at start
    epc, ekey, epaths, eres,  \* _ensure_compare_target_cache frame of each thread
    statusBy,                 \* history: comparison on whose behalf a status entry was written
    signalled,                \* history: stop was set while the worker was alive
    completed,                \* history: result of the last ensure call finished in the live session, per key
    nselect                   \* history: selections the user has made

vars == << ncompare, compare_maps, compare_tmp_obj, compare_render_root,
           dirs, srcs, files, compare_targets, compare_target_status, compare_render_cache,
           currentRow, compare_precache_active, compare_precache_stop,
           compare_precache_thread, compare_render_lock, gpc, gop, gret,
           wpc, widx, wtargets, epc, ekey, epaths, eres,
           statusBy, signalled, completed, nselect >>

diskVars == << dirs, srcs, files >>
guiVars == << gpc, gop, gret >>
workerVars == << wpc, widx, wtargets >>
frameVars == << epc, ekey, epaths, eres >>
sessionVars == << ncompare, compare_maps, compare_tmp_obj, compare_render_root >>
precacheVars == << compare_precache_active, compare_precache_stop, compare_precache_thread >>

\* ---- the lock protocol, step by step ----
\* The two locks of lines 3088-3089 and every `with` block on them, for the
\* GUI thread and the precache workers of one populated comparison.
VARIABLES
    lk_status,                \* threads holding _compare_status_lock (empty or one)
    lk_render,                \* threads holding _compare_render_lock (empty or one)
    lk_pc,                    \* position of each thread
    lk_key,                   \* target key the thread works on, 0 for none
    lk_idx,                   \* workers: index into the target list
    lk_cur,                   \* workers: `current`, read at line 3627
    lk_stat,                  \* compare_target_status, key -> status
    lk_png                    \* key -> "none", or the verdict of the three cached PNGs

lockVars == << lk_status, lk_render, lk_pc, lk_key, lk_idx, lk_cur, lk_stat, lk_png >>

\* ---- one render of a target ----
VARIABLES
    before_src, after_src,    \* what each side's document gives
    rd_pc,                    \* position in lines 3501-3537 and in the caller
    before_svg, after_svg,    \* "none" for None, "svg"
    before_img, after_img,    \* << >> for None, << image >>
    diff_img,
    rd_exc,                   \* the exception raised, "none" for none
    rd_status,                \* compare_target_status[key]
    compare_status_label      \* text of the status label

renderVars == << before_src, after_src, rd_pc, before_svg, after_svg, before_img,
                 after_img, diff_img, rd_exc, rd_status, compare_status_label >>

\* ---- compare_file_maps ----
VARIABLES
    before_map, after_map,    \* the two FileSets
    diff_pc,                  \* "call", "returned"
    diff_result               \* the tuple returned: added, removed, changed, unchanged

diffVars == << before_map, after_map, diff_pc, diff_result >>

\* ---- build_backup_zip_map ----
VARIABLES
    zip_namelist,             \* zf.namelist()
    zip_i,                    \* the entry the loop is at
    zip_result                \* the keys of `result`

zipVars == << zip_namelist, zip_i, zip_result >>

\* ---- build_git_commit_map ----
VARIABLES
    gm_root,                  \* what detect_git_repo_root gives: "none" or "ok"
    gm_rel,                   \* rel_project: "." or a directory of the repository
    gm_ls,                    \* how `git ls-tree` ends: "ok", "fail", "raise"
    gm_lines,                 \* its output lines, each with how `git show` of it ends
    gm_i,                     \* the line the loop is at
    gm_result,                \* the keys of `result`
    gm_pc                     \* "root", "ls", "loop", "returned", "raised"

gitVars == << gm_root, gm_rel, gm_ls, gm_lines, gm_i, gm_result, gm_pc >>

\* ---- refresh_snapshot_timeline ----
VARIABLES
    tl_raw,                   \* settings["compare_timeline_limit"]: << >> or <<an integer>>
    tl_zips,                  \* the archives found: mtime, and whether stat() works
    tl_git_path,              \* self.git_path is set
    tl_root,                  \* what detect_git_repo_root gives: "none" or "ok"
    tl_log,                   \* how `git log` ends: "ok", "fail", "raise"
    tl_lines,                 \* the history `git log` prints, newest commit first
    tl_limit,                 \* limit
    tl_backups,               \* backups
    tl_commits,               \* commits, and whether collect_git_items raised
    snapshot_items_all,
    tl_pc                     \* "limit", "backups", "commits", "merge", "done"

timelineVars == << tl_raw, tl_zips, tl_git_path, tl_root, tl_log, tl_lines, tl_limit,
                   tl_backups, tl_commits, snapshot_items_all, tl_pc >>

\* ---- export_svg_bundle_with_kicad_cli ----
VARIABLES
    ex_kind,                  \* kind: "sch" or "pcb"
    ex_layer,                 \* pcb_layers is given
    ex_runs,                  \* how the run of each command of the list would end
    ex_stale,                 \* out_dir holds an SVG of an earlier call
    ex_i,                     \* the command the loop is at
    ex_svgs,                  \* out_dir holds an SVG
    ex_last_err,              \* last_err
    ex_tried,                 \* the commands run so far, in order
    ex_exc,                   \* the exception that left the function
    ex_pc                     \* "loop", "returned", "raised"

exportVars == << ex_kind, ex_layer, ex_runs, ex_stale, ex_i, ex_svgs, ex_last_err,
                 ex_tried, ex_exc, ex_pc >>

\* ---- populate_compare_item_list: the targets found ----
VARIABLES
    tg_before, tg_after,      \* the paths of the two FileSets written to the roots
    tg_layers,                \* the layers found in a side's board document
    tg_targets,               \* self.compare_targets
    tg_boards,                \* the board paths the loop has still to take up
    tg_pc                     \* "sheets", "boards", "done"

targetVars == << tg_before, tg_after, tg_layers, tg_targets, tg_boards, tg_pc >>

\* ---- render_svg_to_image: the size of the bitmap ----
VARIABLES
    sz_valid,                 \* renderer.isValid()
    sz_width, sz_height,      \* renderer.defaultSize()
    sz_image,                 \* << width, height >> of the QImage returned, << >> for none
    sz_pc                     \* "call", "returned", "raised"

sizeVars == << sz_valid, sz_width, sz_height, sz_image, sz_pc >>

\* ---- detect_pcb_layers: the listing attempts and the textual scan ----
VARIABLES
    ly_runs,                  \* how each listing command ends and the first tokens of its lines
    ly_scan,                  \* what parse_pcb_layers_from_file gives for the document
    ly_i,                     \* the candidate the loop is at
    ly_layers,                \* the list returned
    ly_from,                  \* history: "listing" or "scan", the return statement taken
    ly_pc                     \* "loop", "returned"

layerVars == << ly_runs, ly_scan, ly_i, ly_layers, ly_from, ly_pc >>

\* ---- the names under which a target is stored ----
VARIABLES
    nm_targets,               \* two targets of one list
    nm_keys,                  \* _compare_target_key of each
    nm_cache,                 \* the three cache paths of each
    nm_dirs,                  \* the export directory of each, below before/ and after/
    nm_pc                     \* "key", "cache", "export", "done"

nameVars == << nm_targets, nm_keys, nm_cache, nm_dirs, nm_pc >>

\* ---- a backup written and read back ----
VARIABLES
    rt_tree,                  \* what is at each path below the project directory
    rt_archive,               \* the entries create_project_backup wrote, in order
    rt_back,                  \* build_backup_zip_map of the archive
    rt_current,               \* build_current_project_map of the directory
    rt_pc                     \* "backup", "read", "current", "done", "raised"

tripVars == << rt_tree, rt_archive, rt_back, rt_current, rt_pc >>

\* ---- a comparison request and the load of its two sources ----
VARIABLES
    ld_n,                     \* requests made so far
    ld_pc,                    \* "idle", or "queued": _prepare_compare_after_show is to run
    ld_last,                  \* how the latest request ended: "none", "ok", "failed"
    ld_labels,                \* compare_target_labels
    ld_list,                  \* the items of the compare_item_list widget
    ld_timer,                 \* compare_status_refresh_timer.isActive()
    ld_stop,                  \* _compare_precache_stop.is_set()
    ld_worker,                \* per request: "unstarted", "loop", "rendering", "done"
    ld_idx                    \* per request: targets its worker has still to take up

loadVars == << ld_n, ld_pc, ld_last, ld_labels, ld_list, ld_timer, ld_stop,
               ld_worker, ld_idx >>

lateVars == << sizeVars, layerVars, nameVars, tripVars, loadVars >>

middleVars == << gitVars, timelineVars, exportVars, targetVars >>

\* the variables of the models of single functions added later
pureVars == << middleVars, lateVars >>

\* every variable that is not part of the comparison session model
auxVars == << lockVars, renderVars, diffVars, zipVars, pureVars >>

\* what each of the smaller models leaves alone
notLock == << vars, renderVars, diffVars, zipVars, pureVars >>
notRender == << vars, lockVars, diffVars, zipVars, pureVars >>
notDiff == << vars, lockVars, renderVars, zipVars, pureVars >>
notZip == << vars, lockVars, renderVars, diffVars, pureVars >>
earlierVars == << vars, lockVars, renderVars, diffVars, zipVars >>
notGit == << earlierVars, timelineVars, exportVars, targetVars, lateVars >>
notTimeline == << earlierVars, gitVars, exportVars, targetVars, lateVars >>
notExport == << earlierVars, gitVars, timelineVars, targetVars, lateVars >>
notTarget == << earlierVars, gitVars, timelineVars, exportVars, lateVars >>
notSize == << earlierVars, middleVars, layerVars, nameVars, tripVars, loadVars >>
notLayer == << earlierVars, middleVars, sizeVars, nameVars, tripVars, loadVars >>
notName == << earlierVars, middleVars, sizeVars, layerVars, tripVars, loadVars >>
notTrip == << earlierVars, middleVars, sizeVars, layerVars, nameVars, loadVars >>
notLoad == << earlierVars, middleVars, sizeVars, layerVars, nameVars, tripVars >>

\* the lock protocol is not running
LockIdle ==
    /\ lk_status = {}
    /\ lk_render = {}
    /\ lk_pc = [t \in Threads |-> "off"]
    /\ lk_key = [t \in Threads |-> 0]
    /\ lk_idx = [w \in Sessions |-> 1]
    /\ lk_cur = [w \in Sessions |-> "none"]
    /\ lk_stat = [k \in Keys |-> "absent"]
    /\ lk_png = [k \in Keys |-> "none"]

\* no render is under study
RenderIdle ==
    /\ before_src = "none"
    /\ after_src = "none"
    /\ rd_pc = "off"
    /\ before_svg = "none"
    /\ after_svg = "none"
    /\ before_img = << >>
    /\ after_img = << >>
    /\ diff_img = << >>
    /\ rd_exc = "none"
    /\ rd_status = "none"
    /\ compare_status_label = "none"

\* no comparison of FileSets is under study
DiffIdle ==
    /\ before_map = << >>
    /\ after_map = << >>
    /\ diff_pc = "off"
    /\ diff_result = << >>

\* no archive is under study
ZipIdle ==
    /\ zip_namelist = << >>
    /\ zip_i = 1
    /\ zip_result = {}

\* no revision is being read
GitIdle ==
    /\ gm_root = "none"
    /\ gm_rel = "."
    /\ gm_ls = "ok"
    /\ gm_lines = << >>
    /\ gm_i = 1
    /\ gm_result = {}
    /\ gm_pc = "off"

\* no timeline is being built
TimelineIdle ==
    /\ tl_raw = << >>
    /\ tl_zips = << >>
    /\ tl_git_path = FALSE
    /\ tl_root = "none"
    /\ tl_log = "ok"
    /\ tl_lines = << >>
    /\ tl_limit = 0
    /\ tl_backups = << >>
    /\ tl_commits = << >>
    /\ snapshot_items_all = << >>
    /\ tl_pc = "off"

\* no export is under study
ExportIdle ==
    /\ ex_kind = "none"
    /\ ex_layer = FALSE
    /\ ex_runs = << >>
    /\ ex_stale = FALSE
    /\ ex_i = 1
    /\ ex_svgs = FALSE
    /\ ex_last_err = << >>
    /\ ex_tried = << >>
    /\ ex_exc = << >>
    /\ ex_pc = "off"

\* no list of targets is being built
TargetIdle ==
    /\ tg_before = {}
    /\ tg_after = {}
    /\ tg_layers = << >>
    /\ tg_targets = << >>
    /\ tg_boards = << >>
    /\ tg_pc = "off"

\* no SVG is being rasterized for its size
SizeIdle ==
    /\ sz_valid = FALSE
    /\ sz_width = 0
    /\ sz_height = 0
    /\ sz_image = << >>
    /\ sz_pc = "off"

\* no layers are being detected
LayerIdle ==
    /\ ly_runs = << >>
    /\ ly_scan = << >>
    /\ ly_i = 1
    /\ ly_layers = << >>
    /\ ly_from = "none"
    /\ ly_pc = "off"

\* no names are being derived
NameIdle ==
    /\ nm_targets = << >>
    /\ nm_keys = << >>
    /\ nm_cache = << >>
    /\ nm_dirs = << >>
    /\ nm_pc = "off"

\* no backup is being written
TripIdle ==
    /\ rt_tree = << >>
    /\ rt_archive = << >>
    /\ rt_back = {}
    /\ rt_current = {}
    /\ rt_pc = "off"

\* no comparison is requested
LoadIdle ==
    /\ ld_n = 0
    /\ ld_pc = "off"
    /\ ld_last = "none"
    /\ ld_labels = << >>
    /\ ld_list = << >>
    /\ ld_timer = FALSE
    /\ ld_stop = FALSE
    /\ ld_worker = << >>
    /\ ld_idx = << >>

LateIdle == SizeIdle /\ LayerIdle /\ NameIdle /\ TripIdle /\ LoadIdle

MiddleIdle == GitIdle /\ TimelineIdle /\ ExportIdle /\ TargetIdle

PureIdle == MiddleIdle /\ LateIdle

\* ---- helpers ----
SeqOf(S) == CHOOSE q \in [1..Cardinality(S) -> S] :
               \A i, j \in 1..Cardinality(S) : i < j => q[i] < q[j]

Range(q) == {q[i] : i \in 1..Len(q)}

\* Key sets two FileSets can give rise to: a layer only with its board.
MapChoices == {S \in SUBSET Keys : (\E k \in S : k > BoardKey) => BoardKey \in S}

Alive(w) == wpc[w] \notin {"unstarted", "done"}

\* The thread is running the external tool.
ToolRunning(t) == epc[t] = "export" \/ (t = GuiThread /\ gpc = "detect")

\* The thread is in the render-and-persist step.
Rendering(t) == epc[t] \in {"export", "persist"}

\* The comparison a thread acts for.
Behalf(t) == IF t = GuiThread THEN ncompare ELSE t


\* dict.get(key, "pending")
StatusGet(st, k) == IF st[k] = "absent" THEN "pending" ELSE st[k]

\* before_png.exists() and after_png.exists() and diff_png.exists()
CacheHit(s, k) == files[s][k] # "none"

\* variant: the holder of the render lock does not look again
RecheckSkipped(s, k) == FALSE

\* line 3490: the same test, made again by the holder of the render lock
RecheckHit(s, k) == CacheHit(s, k)

\* "diff" if images_different(b, a) else "same", on the cached bitmaps
HitStatus(s, k) == IF files[s][k] = "diff" THEN "diff" ELSE "same"

\* variant: a failed render leaves the status as it was
FailureStatusUnwritten(st, k) == st

\* variant: the except branch marks every entry of the map
FailureStatusAll(st, k) == [j \in Keys |-> IF st[j] = "absent" /\ j # k THEN "absent" ELSE "error"]

\* the status map after the except branch of a failed render of key k
FailureStatus(st, k) == [st EXCEPT ![k] = "error"]

\* the worker's test-and-set: rendering only if still pending
WorkerMarkStatus(st, k) ==
    IF StatusGet(st, k) = "pending" THEN [st EXCEPT ![k] = "rendering"] ELSE st

\* Event.is_set() at the head of the worker's loop
StopObserved == compare_precache_stop

\* The steps of _ensure_compare_target_cache that last: the pixel loops of
\* images_different and make_pixel_diff_image, the wait for the render lock,
\* the external tool.
SlowSteps == {"hit", "hit_locked", "lockwait", "export", "persist"}

\* thread.join(timeout=0.2) returns: the worker ended, or the wait ran out
\* while the worker was in a step that lasts
JoinReturns(w) == IF w = NoRoot THEN TRUE
                  ELSE ~Alive(w) \/ epc[w] \in SlowSteps

\* MainWindow.__init__, lines 3061-3093
SessionInit ==
    /\ ncompare = 0
    /\ compare_maps = {}
    /\ compare_tmp_obj = NoRoot
    /\ compare_render_root = NoRoot
    /\ dirs = {}
    /\ srcs = [s \in Sessions |-> {}]
    /\ files = [s \in Sessions |-> [k \in Keys |-> "none"]]
    /\ compare_targets = << >>
    /\ compare_target_status = [k \in Keys |-> "absent"]
    /\ compare_render_cache = {}
    /\ currentRow = 0
    /\ compare_precache_active = FALSE
    /\ compare_precache_stop = FALSE
    /\ compare_precache_thread = NoRoot
    /\ compare_render_lock = {}
    /\ gpc = "idle"
    /\ gop = "none"
    /\ gret = "idle"
    /\ wpc = [w \in Sessions |-> "unstarted"]
    /\ widx = [w \in Sessions |-> 1]
    /\ wtargets = [w \in Sessions |-> << >>]
    /\ epc = [t \in Threads |-> "none"]
    /\ ekey = [t \in Threads |-> 0]
    /\ epaths = [t \in Threads |-> NoRoot]
    /\ eres = [t \in Threads |-> "none"]
    /\ statusBy = [k \in Keys |-> 0]
    /\ signalled = [w \in Sessions |-> FALSE]
    /\ completed = [k \in Keys |-> "none"]
    /\ nselect = 0

Init == SessionInit /\ LockIdle /\ RenderIdle /\ DiffIdle /\ ZipIdle /\ PureIdle

\* ---- _cleanup_compare_temp_dirs ----

\* lines 3321-3324: timer stopped, active flag cleared, stop event set
CleanupBegin(op) ==
    /\ gpc = "idle"
    /\ gop' = op
    /\ gpc' = "join"
    /\ compare_precache_active' = FALSE
    /\ compare_precache_stop' = TRUE
    /\ signalled' = [w \in Sessions |-> signalled[w] \/ Alive(w)]
    /\ UNCHANGED << compare_tmp_obj, compare_render_root, diskVars,
                    compare_targets, compare_target_status, compare_render_cache,
                    currentRow, compare_precache_thread, compare_render_lock, gret,
                    workerVars, frameVars, statusBy, completed, nselect, auxVars >>

\* _prepare_compare_after_show up to the join: the two maps are loaded
OpenComparison ==
    /\ ncompare < MaxSessions
    /\ ncompare' = ncompare + 1
    /\ compare_maps' \in MapChoices
    /\ CleanupBegin("open")

\* closeEvent
CloseWindow ==
    /\ CleanupBegin("close")
    /\ UNCHANGED << ncompare, compare_maps >>

\* lines 3325-3327
JoinWorker ==
    /\ gpc = "join"
    /\ JoinReturns(compare_precache_thread)
    /\ compare_precache_thread' = NoRoot
    /\ gpc' = "rmdirs"
    /\ UNCHANGED << sessionVars, diskVars, compare_targets, compare_target_status,
                    compare_render_cache, currentRow, compare_precache_active,
                    compare_precache_stop, compare_render_lock, gop, gret,
                    workerVars, frameVars, statusBy, signalled,
                    completed, nselect, auxVars >>

\* lines 3328-3333: the three TemporaryDirectory objects are cleaned up
RemoveDirs ==
    /\ gpc = "rmdirs"
    /\ gpc' = "clear_roots"
    /\ compare_tmp_obj' = NoRoot
    /\ IF compare_tmp_obj # NoRoot
       THEN /\ dirs' = dirs \ {compare_tmp_obj}
            /\ srcs' = [srcs EXCEPT ![compare_tmp_obj] = {}]
            /\ files' = [files EXCEPT ![compare_tmp_obj] = [k \in Keys |-> "none"]]
       ELSE UNCHANGED diskVars
    /\ completed' = [k \in Keys |-> "none"]
    /\ UNCHANGED << ncompare, compare_maps, compare_render_root,
                    compare_targets, compare_target_status, compare_render_cache,
                    currentRow, precacheVars, compare_render_lock, gop, gret,
                    workerVars, frameVars, statusBy, signalled, nselect, auxVars >>

\* lines 3334-3336
ClearRoots ==
    /\ gpc = "clear_roots"
    /\ compare_render_root' = NoRoot
    /\ gpc' = IF gop = "close" THEN "closed" ELSE "prepare"
    /\ UNCHANGED << ncompare, compare_maps, compare_tmp_obj, diskVars,
                    compare_targets, compare_target_status, compare_render_cache,
                    currentRow, precacheVars, compare_render_lock, gop, gret,
                    workerVars, frameVars, statusBy, signalled,
                    completed, nselect, auxVars >>

\* ---- _prepare_compare_temp_dirs, lines 3307-3318 ----
PrepareDirs ==
    /\ gpc = "prepare"
    /\ gpc' = "populate"
    /\ compare_render_cache' = {}
    /\ compare_targets' = << >>
    /\ IF compare_maps = {}
       THEN UNCHANGED << compare_tmp_obj, compare_render_root, diskVars >>
       ELSE /\ compare_tmp_obj' = ncompare
            /\ compare_render_root' = ncompare
            /\ dirs' = dirs \cup {ncompare}
            /\ srcs' = [srcs EXCEPT ![ncompare] = compare_maps]
            /\ UNCHANGED files
    /\ UNCHANGED << ncompare, compare_maps, compare_target_status,
                    currentRow, precacheVars, compare_render_lock, gop, gret,
                    workerVars, frameVars, statusBy, signalled,
                    completed, nselect, auxVars >>

\* The call history when thread t's call returns: a call whose cache paths lie
\* in the live session's directory is recorded with its outcome.
Completed(t) ==
    IF epaths[t] # NoRoot /\ epaths[t] = compare_tmp_obj
    THEN [completed EXCEPT ![ekey[t]] = IF epc[t] = "ret_ok" THEN "ok" ELSE "raise"]
    ELSE completed

\* ---- on_compare_item_selected ----

\* The handler run for row `row` of target list tg on status map st (written
\* on behalf of sb), up to its call of _render_compare_target; `ret` is where
\* the GUI thread goes on when the handler returns.
ItemSelected(tg, st, sb, row, ret) ==
    LET key == tg[row] IN
    /\ IF key \in compare_render_cache'
       THEN /\ compare_target_status' = st
            /\ statusBy' = sb
            /\ gpc' = ret
            /\ UNCHANGED << gret, frameVars >>
       ELSE /\ compare_target_status' = [st EXCEPT ![key] = "rendering"]
            /\ statusBy' = [sb EXCEPT ![key] = ncompare]
            /\ gpc' = "sel_call"
            /\ gret' = ret
            /\ epc' = [epc EXCEPT ![GuiThread] = "start"]
            /\ ekey' = [ekey EXCEPT ![GuiThread] = key]
            /\ UNCHANGED << epaths, eres >>

\* the user moves the selection to another row of the list
UserSelect(row) ==
    /\ gpc = "idle"
    /\ gop # "close"
    /\ row \in 1..Len(compare_targets)
    /\ row # currentRow
    /\ nselect < MaxSelects
    /\ nselect' = nselect + 1
    /\ currentRow' = row
    /\ compare_render_cache' = compare_render_cache
    /\ ItemSelected(compare_targets, compare_target_status, statusBy, row, "idle")
    /\ UNCHANGED << sessionVars, diskVars, compare_targets, precacheVars,
                    compare_render_lock, gop, workerVars, signalled,
                    completed, auxVars >>

\* lines 3426-3439: _render_compare_target returned or raised
SelectReturn ==
    LET key == ekey[GuiThread] IN
    /\ gpc = "sel_call"
    /\ epc[GuiThread] \in {"ret_ok", "ret_raise"}
    /\ IF epc[GuiThread] = "ret_ok" /\ files[epaths[GuiThread]][key] # "none"
       THEN /\ compare_render_cache' = compare_render_cache \cup {key}
            /\ UNCHANGED << compare_target_status, statusBy >>
       ELSE /\ compare_target_status' = FailureStatus(compare_target_status, key)
            /\ statusBy' = [statusBy EXCEPT ![key] = ncompare]
            /\ UNCHANGED compare_render_cache
    /\ completed' = Completed(GuiThread)
    /\ gpc' = gret
    /\ gret' = "idle"
    /\ epc' = [epc EXCEPT ![GuiThread] = "none"]
    /\ ekey' = [ekey EXCEPT ![GuiThread] = 0]
    /\ epaths' = [epaths EXCEPT ![GuiThread] = NoRoot]
    /\ eres' = [eres EXCEPT ![GuiThread] = "none"]
    /\ UNCHANGED << sessionVars, diskVars, compare_targets, currentRow, precacheVars,
                    compare_render_lock, gop, workerVars, signalled, nselect, auxVars >>

\* ---- populate_compare_item_list ----

\* The end of populate_compare_item_list and what _prepare_compare_after_show
\* does next (lines 3393-3404, 3295-3297): with no target the handler is over,
\* otherwise setCurrentRow(0) runs on_compare_item_selected for the first row
\* and _start_compare_precache follows.
PopulateEnd(tg, st, sb) ==
    /\ compare_targets' = tg
    /\ IF Len(tg) = 0
       THEN /\ currentRow' = 0
            /\ compare_target_status' = st
            /\ statusBy' = sb
            /\ gpc' = "idle"
            /\ UNCHANGED << gret, frameVars >>
       ELSE /\ currentRow' = 1
            /\ ItemSelected(tg, st, sb, 1, "start")

\* the status map with the keys of S entered as pending
WithPending(st, S) == [k \in Keys |-> IF k \in S THEN "pending" ELSE st[k]]

\* lines 3338-3391 up to the first layer detection
Populate ==
    LET cleared == [k \in Keys |-> "absent"]
        first == {k \in compare_maps : k <= BoardKey}
        st1 == WithPending(cleared, first)
        sb1 == [k \in Keys |-> IF k \in first THEN ncompare ELSE 0]
    IN
    /\ gpc = "populate"
    /\ compare_render_cache' = compare_render_cache
    /\ IF compare_render_root = NoRoot
       THEN PopulateEnd(<< >>, cleared, [k \in Keys |-> 0])
       ELSE IF BoardKey \in compare_maps
            THEN /\ gpc' = "detect"
                 /\ compare_targets' = SeqOf(first)
                 /\ compare_target_status' = st1
                 /\ statusBy' = sb1
                 /\ currentRow' = 0
                 /\ UNCHANGED << gret, frameVars >>
            ELSE PopulateEnd(SeqOf(compare_maps),
                             WithPending(cleared, compare_maps),
                             [k \in Keys |-> IF k \in compare_maps THEN ncompare ELSE 0])
    /\ UNCHANGED << sessionVars, diskVars, precacheVars, compare_render_lock, gop,
                    workerVars, signalled, completed, nselect, auxVars >>

\* lines 3377-3391: detect_pcb_layers has run kicad-cli, the layer targets
\* are appended
DetectLayers ==
    /\ gpc = "detect"
    /\ compare_render_cache' = compare_render_cache
    /\ PopulateEnd(SeqOf(compare_maps),
                   WithPending(compare_target_status, compare_maps \ Range(compare_targets)),
                   [k \in Keys |-> IF k \in compare_maps \ Range(compare_targets)
                                   THEN ncompare ELSE statusBy[k]])
    /\ UNCHANGED << sessionVars, diskVars, precacheVars, compare_render_lock, gop,
                    workerVars, signalled, completed, nselect, auxVars >>

\* ---- _start_compare_precache ----
StartPrecache ==
    /\ gpc = "start"
    /\ gpc' = "idle"
    /\ IF compare_precache_active
       THEN UNCHANGED << precacheVars, workerVars >>
       ELSE /\ compare_precache_stop' = FALSE
            /\ compare_precache_active' = TRUE
            /\ compare_precache_thread' = ncompare
            /\ wtargets' = [wtargets EXCEPT ![ncompare] = compare_targets]
            /\ wpc' = [wpc EXCEPT ![ncompare] = "loop"]
            /\ widx' = [widx EXCEPT ![ncompare] = 1]
    /\ UNCHANGED << sessionVars, diskVars, compare_targets, compare_target_status,
                    compare_render_cache, currentRow, compare_render_lock, gop, gret,
                    frameVars, statusBy, signalled, completed, nselect, auxVars >>

\* ---- _ensure_compare_target_cache, run by thread t for key ekey[t] ----

\* the document a target is exported from: a layer comes from its board
Doc(k) == IF k > BoardKey THEN BoardKey ELSE k

\* a status write under the status lock, by thread t
WriteStatus(t, k, v) ==
    /\ compare_target_status' = [compare_target_status EXCEPT ![k] = v]
    /\ statusBy' = [statusBy EXCEPT ![k] = Behalf(t)]

\* lines 3466-3487: the guards, _cache_paths_for_target (which makes the
\* cache directory) and the check for a hit made without the render lock
EnsureStart(t) ==
    /\ epc[t] = "start"
    /\ IF compare_render_root = NoRoot
       THEN /\ epc' = [epc EXCEPT ![t] = "ret_raise"]
            /\ UNCHANGED << epaths, eres, dirs >>
       ELSE /\ epaths' = [epaths EXCEPT ![t] = compare_render_root]
            /\ dirs' = dirs \cup {compare_render_root}
            /\ IF CacheHit(compare_render_root, ekey[t])
               THEN /\ eres' = [eres EXCEPT ![t] = HitStatus(compare_render_root, ekey[t])]
                    /\ epc' = [epc EXCEPT ![t] = "hit"]
               ELSE /\ epc' = [epc EXCEPT ![t] = "lockwait"]
                    /\ UNCHANGED eres
    /\ UNCHANGED << sessionVars, srcs, files, compare_targets, compare_target_status,
                    compare_render_cache, currentRow, precacheVars, compare_render_lock,
                    guiVars, workerVars, ekey, statusBy, signalled,
                    completed, nselect, auxVars >>

\* lines 3485-3487: the status of a hit is written, the paths are returned
EnsureHit(t) ==
    /\ epc[t] = "hit"
    /\ WriteStatus(t, ekey[t], eres[t])
    /\ epc' = [epc EXCEPT ![t] = "ret_ok"]
    /\ UNCHANGED << sessionVars, diskVars, compare_targets, compare_render_cache,
                    currentRow, precacheVars, compare_render_lock, guiVars, workerVars,
                    ekey, epaths, eres, signalled, completed, nselect, auxVars >>

\* line 3489: with self._compare_render_lock
EnsureAcquire(t) ==
    /\ epc[t] = "lockwait"
    /\ compare_render_lock = {}
    /\ compare_render_lock' = {t}
    /\ epc' = [epc EXCEPT ![t] = "locked"]
    /\ UNCHANGED << sessionVars, diskVars, compare_targets, compare_target_status,
                    compare_render_cache, currentRow, precacheVars, guiVars, workerVars,
                    ekey, epaths, eres, statusBy, signalled, completed, nselect, auxVars >>

\* lines 3490-3515: the check for a hit repeated under the lock; on a miss
\* the sources are looked up below the roots and the export begins
EnsureLocked(t) ==
    /\ epc[t] = "locked"
    /\ IF RecheckHit(epaths[t], ekey[t])
       THEN /\ eres' = [eres EXCEPT ![t] = HitStatus(epaths[t], ekey[t])]
            /\ epc' = [epc EXCEPT ![t] = "hit_locked"]
            /\ UNCHANGED compare_render_lock
       ELSE IF compare_render_root = NoRoot \/ Doc(ekey[t]) \notin srcs[compare_render_root]
            THEN /\ epc' = [epc EXCEPT ![t] = "ret_raise"]
                 /\ compare_render_lock' = {}
                 /\ UNCHANGED eres
            ELSE /\ epc' = [epc EXCEPT ![t] = "export"]
                 /\ UNCHANGED << compare_render_lock, eres >>
    /\ UNCHANGED << sessionVars, diskVars, compare_targets, compare_target_status,
                    compare_render_cache, currentRow, precacheVars, guiVars, workerVars,
                    ekey, epaths, statusBy, signalled, completed, nselect, auxVars >>

\* lines 3497-3499: a hit found under the lock
EnsureHitLocked(t) ==
    /\ epc[t] = "hit_locked"
    /\ WriteStatus(t, ekey[t], eres[t])
    /\ compare_render_lock' = {}
    /\ epc' = [epc EXCEPT ![t] = "ret_ok"]
    /\ UNCHANGED << sessionVars, diskVars, compare_targets, compare_render_cache,
                    currentRow, precacheVars, guiVars, workerVars, ekey, epaths, eres,
                    signalled, completed, nselect, auxVars >>

\* lines 3504-3531: kicad-cli and the rasterizer have run for both sides;
\* they failed, or gave two bitmaps that differ or not
EnsureExported(t) ==
    /\ epc[t] = "export"
    /\ \/ /\ epc' = [epc EXCEPT ![t] = "ret_raise"]
          /\ compare_render_lock' = {}
          /\ UNCHANGED eres
       \/ \E v \in Verdicts :
            /\ eres' = [eres EXCEPT ![t] = v]
            /\ epc' = [epc EXCEPT ![t] = "persist"]
            /\ UNCHANGED compare_render_lock
    /\ UNCHANGED << sessionVars, diskVars, compare_targets, compare_target_status,
                    compare_render_cache, currentRow, precacheVars, guiVars, workerVars,
                    ekey, epaths, statusBy, signalled, completed, nselect, auxVars >>

\* variant: the diff bitmap is never written, the entry stays incomplete
SavedIncomplete(t) == files

\* lines 3532-3534: the cache after the three bitmaps are saved (QImage.save
\* gives False and writes nothing when the directory is gone)
Saved(t) == IF epaths[t] \in dirs
            THEN [files EXCEPT ![epaths[t]][ekey[t]] = eres[t]]
            ELSE files

\* lines 3532-3537: the bitmaps are saved, the verdict is recorded
EnsurePersist(t) ==
    /\ epc[t] = "persist"
    /\ files' = Saved(t)
    /\ WriteStatus(t, ekey[t], eres[t])
    /\ compare_render_lock' = {}
    /\ epc' = [epc EXCEPT ![t] = "ret_ok"]
    /\ UNCHANGED << sessionVars, dirs, srcs, compare_targets, compare_render_cache,
                    currentRow, precacheVars, guiVars, workerVars, ekey, epaths, eres,
                    signalled, completed, nselect, auxVars >>

\* ---- _run_compare_precache_worker, thread w ----

\* lines 3622-3624 and the finally clause: the loop head
WorkerCheck(w) ==
    /\ wpc[w] = "loop"
    /\ IF widx[w] > Len(wtargets[w]) \/ StopObserved
       THEN /\ wpc' = [wpc EXCEPT ![w] = "done"]
            /\ compare_precache_active' = FALSE
            /\ widx' = [widx EXCEPT ![w] = 1]
            /\ wtargets' = [wtargets EXCEPT ![w] = << >>]
            /\ signalled' = [signalled EXCEPT ![w] = FALSE]
       ELSE /\ wpc' = [wpc EXCEPT ![w] = "mark"]
            /\ UNCHANGED << compare_precache_active, widx, wtargets, signalled >>
    /\ UNCHANGED << sessionVars, diskVars, compare_targets, compare_target_status,
                    compare_render_cache, currentRow, compare_precache_stop,
                    compare_precache_thread, compare_render_lock, guiVars,
                    frameVars, statusBy, completed, nselect, auxVars >>

\* lines 3625-3631: the test-and-set of the status, then the call
WorkerMark(w) ==
    LET key == wtargets[w][widx[w]]
        st == WorkerMarkStatus(compare_target_status, key)
    IN
    /\ wpc[w] = "mark"
    /\ compare_target_status' = st
    /\ statusBy' = IF st = compare_target_status THEN statusBy
                   ELSE [statusBy EXCEPT ![key] = w]
    /\ wpc' = [wpc EXCEPT ![w] = "incall"]
    /\ epc' = [epc EXCEPT ![w] = "start"]
    /\ ekey' = [ekey EXCEPT ![w] = key]
    /\ UNCHANGED << sessionVars, diskVars, compare_targets, compare_render_cache,
                    currentRow, precacheVars, compare_render_lock, guiVars, widx,
                    wtargets, epaths, eres, signalled, completed, nselect, auxVars >>

\* variant: the except branch leaves the loop
AfterRaiseBreaks(w) == [wpc EXCEPT ![w] = "done"]

\* the worker's position after the except branch: `continue`
AfterRaise(w) == [wpc EXCEPT ![w] = "loop"]

\* lines 3631-3635: the call returned, or raised and the except branch ran
WorkerReturn(w) ==
    LET key == ekey[w] IN
    /\ wpc[w] = "incall"
    /\ epc[w] \in {"ret_ok", "ret_raise"}
    /\ IF epc[w] = "ret_raise"
       THEN /\ compare_target_status' = FailureStatus(compare_target_status, key)
            /\ statusBy' = [statusBy EXCEPT ![key] = w]
            /\ wpc' = AfterRaise(w)
       ELSE /\ wpc' = [wpc EXCEPT ![w] = "loop"]
            /\ UNCHANGED << compare_target_status, statusBy >>
    /\ widx' = [widx EXCEPT ![w] = @ + 1]
    /\ completed' = Completed(w)
    /\ epc' = [epc EXCEPT ![w] = "none"]
    /\ ekey' = [ekey EXCEPT ![w] = 0]
    /\ epaths' = [epaths EXCEPT ![w] = NoRoot]
    /\ eres' = [eres EXCEPT ![w] = "none"]
    /\ UNCHANGED << sessionVars, diskVars, compare_targets, compare_render_cache,
                    currentRow, precacheVars, compare_render_lock, guiVars, wtargets,
                    signalled, nselect, auxVars >>

\* ---- the program ----
Next ==
    \/ OpenComparison
    \/ CloseWindow
    \/ JoinWorker
    \/ RemoveDirs
    \/ ClearRoots
    \/ PrepareDirs
    \/ Populate
    \/ DetectLayers
    \/ StartPrecache
    \/ SelectReturn
    \/ \E row \in Keys : UserSelect(row)
    \/ \E t \in Threads : EnsureStart(t)
    \/ \E t \in Threads : EnsureHit(t)
    \/ \E t \in Threads : EnsureAcquire(t)
    \/ \E t \in Threads : EnsureLocked(t)
    \/ \E t \in Threads : EnsureHitLocked(t)
    \/ \E t \in Threads : EnsureExported(t)
    \/ \E t \in Threads : EnsurePersist(t)
    \/ \E w \in Sessions : WorkerCheck(w)
    \/ \E w \in Sessions : WorkerMark(w)
    \/ \E w \in Sessions : WorkerReturn(w)

Spec == Init /\ [][Next]_vars

\* ---- scheduling ----
\* The call of _ensure_compare_target_cache running on thread t.
EnsureStep(t) ==
    \/ EnsureStart(t) \/ EnsureHit(t) \/ EnsureAcquire(t) \/ EnsureLocked(t)
    \/ EnsureHitLocked(t) \/ EnsureExported(t) \/ EnsurePersist(t)

\* The GUI thread's own steps inside a handler: everything but the user's
\* opening a comparison, selecting a row and closing the window.
GuiProgram ==
    \/ JoinWorker \/ RemoveDirs \/ ClearRoots \/ PrepareDirs \/ Populate
    \/ DetectLayers \/ StartPrecache \/ SelectReturn \/ EnsureStep(GuiThread)

\* The steps of the precache worker w.
WorkerProgram(w) ==
    \/ WorkerCheck(w) \/ WorkerMark(w) \/ WorkerReturn(w) \/ EnsureStep(w)

\* The program with a user who, after the selection of the first row that
\* opening a comparison makes, selects a row by hand at most once.
FairNext ==
    \/ OpenComparison
    \/ CloseWindow
    \/ \E row \in Keys : (nselect = 0 /\ UserSelect(row))
    \/ GuiProgram
    \/ \E w \in Sessions : WorkerProgram(w)

\* That program with threads that are scheduled: a thread that can take a
\* step takes one, and every run of the external tool ends (run_subprocess
\* has timeout=40).  The user's actions are under no obligation.
FairSpec ==
    /\ Init /\ [][FairNext]_vars
    /\ WF_vars(GuiProgram)
    /\ \A w \in Sessions : WF_vars(WorkerProgram(w))


\* ---- the lock protocol of one populated comparison ----
\* Every thread's walk through the `with` blocks on the two locks.  The list
\* is populated (every target pending) and the workers are started; a
\* selection of a target whose images are held in memory takes no lock and
\* is left out.

\* the positions at which a thread waits for _compare_status_lock, and where
\* it is once it holds it
StatusWaits == {"mark_wait", "sel_wait", "refresh_wait", "hit_wait", "rhit_wait",
                "persist_wait", "err_wait"}

AfterStatusAcquire(pc) ==
    CASE pc = "mark_wait" -> "mark_read"
      [] pc = "sel_wait" -> "sel_held"
      [] pc = "refresh_wait" -> "refresh_held"
      [] pc = "hit_wait" -> "hit_held"
      [] pc = "rhit_wait" -> "rhit_held"
      [] pc = "persist_wait" -> "persist_held"
      [] pc = "err_wait" -> "err_held"

\* variant: the lock excludes nobody
StatusLockIgnored == TRUE

\* threading.Lock.acquire returns only when nobody holds the lock
StatusLockFree == lk_status = {}

\* variant: one lock for both, taken before the export and kept over it
HeldIntoExportToo(t) == {t}

\* the holders of the status lock when thread t begins the export: the render
\* lock is all it holds
HeldIntoExport(t) == lk_status

\* variant: an exception leaves the block with the lock still taken
RenderKeptOnRaise(t) == lk_render

\* line 3489: the holders of the render lock once an exception has left the
\* `with` block of thread t
RenderAfterRaise(t) == lk_render \ {t}

LkGoto(t, pc) == lk_pc' = [lk_pc EXCEPT ![t] = pc]

LkWrite(k, v) == lk_stat' = [lk_stat EXCEPT ![k] = v]

\* the populated list with the threads at the heads of their loops
LockInit ==
    /\ SessionInit /\ RenderIdle /\ DiffIdle /\ ZipIdle /\ PureIdle
    /\ lk_status = {}
    /\ lk_render = {}
    /\ lk_pc = [t \in Threads |-> IF t = GuiThread THEN "idle" ELSE "loop"]
    /\ lk_key = [t \in Threads |-> 0]
    /\ lk_idx = [w \in Sessions |-> 1]
    /\ lk_cur = [w \in Sessions |-> "none"]
    /\ lk_stat = [k \in Keys |-> "pending"]
    /\ lk_png = [k \in Keys |-> "none"]

\* `with self._compare_status_lock:` entered, at any of its places
LkStatusAcquire(t) ==
    /\ lk_pc[t] \in StatusWaits
    /\ StatusLockFree
    /\ lk_status' = {t}
    /\ LkGoto(t, AfterStatusAcquire(lk_pc[t]))
    /\ UNCHANGED << lk_render, lk_key, lk_idx, lk_cur, lk_stat, lk_png >>

\* the refresh timer fires: _refresh_compare_item_list_labels
LkRefreshBegin ==
    /\ lk_pc[GuiThread] = "idle"
    /\ LkGoto(GuiThread, "refresh_wait")
    /\ UNCHANGED << lk_status, lk_render, lk_key, lk_idx, lk_cur, lk_stat, lk_png >>

\* lines 3596-3602: the statuses are read, the block is left
LkRefreshHeld ==
    /\ lk_pc[GuiThread] = "refresh_held"
    /\ lk_status' = {}
    /\ LkGoto(GuiThread, "idle")
    /\ UNCHANGED << lk_render, lk_key, lk_idx, lk_cur, lk_stat, lk_png >>

\* on_compare_item_selected for a target not held in memory
LkSelectBegin(k) ==
    /\ lk_pc[GuiThread] = "idle"
    /\ lk_key' = [lk_key EXCEPT ![GuiThread] = k]
    /\ LkGoto(GuiThread, "sel_wait")
    /\ UNCHANGED << lk_status, lk_render, lk_idx, lk_cur, lk_stat, lk_png >>

\* lines 3419-3420
LkSelectHeld ==
    /\ lk_pc[GuiThread] = "sel_held"
    /\ LkWrite(lk_key[GuiThread], "rendering")
    /\ lk_status' = {}
    /\ LkGoto(GuiThread, "start")
    /\ UNCHANGED << lk_render, lk_key, lk_idx, lk_cur, lk_png >>

\* lines 3622-3625: the head of the worker's loop
LkWorkerLoop(w) ==
    /\ lk_pc[w] = "loop"
    /\ IF lk_idx[w] > NumKeys
       THEN LkGoto(w, "done") /\ UNCHANGED lk_key
       ELSE LkGoto(w, "mark_wait") /\ lk_key' = [lk_key EXCEPT ![w] = lk_idx[w]]
    /\ UNCHANGED << lk_status, lk_render, lk_idx, lk_cur, lk_stat, lk_png >>

\* line 3627: current = self.compare_target_status.get(key, "pending")
LkMarkRead(w) ==
    /\ lk_pc[w] = "mark_read"
    /\ lk_cur' = [lk_cur EXCEPT ![w] = StatusGet(lk_stat, lk_key[w])]
    /\ LkGoto(w, "mark_write")
    /\ UNCHANGED << lk_status, lk_render, lk_key, lk_idx, lk_stat, lk_png >>

\* lines 3628-3629: the write if current is pending, the block is left
LkMarkWrite(w) ==
    /\ lk_pc[w] = "mark_write"
    /\ IF lk_cur[w] = "pending"
       THEN LkWrite(lk_key[w], "rendering")
       ELSE UNCHANGED lk_stat
    /\ lk_status' = {}
    /\ lk_cur' = [lk_cur EXCEPT ![w] = "none"]
    /\ LkGoto(w, "start")
    /\ UNCHANGED << lk_render, lk_key, lk_idx, lk_png >>

\* lines 3477-3478: the check for a hit without a lock
LkStart(t) ==
    /\ lk_pc[t] = "start"
    /\ LkGoto(t, IF lk_png[lk_key[t]] # "none" THEN "hit_wait" ELSE "render_wait")
    /\ UNCHANGED << lk_status, lk_render, lk_key, lk_idx, lk_cur, lk_stat, lk_png >>

\* lines 3485-3487
LkHitHeld(t) ==
    /\ lk_pc[t] = "hit_held"
    /\ LkWrite(lk_key[t], lk_png[lk_key[t]])
    /\ lk_status' = {}
    /\ LkGoto(t, "ret_ok")
    /\ UNCHANGED << lk_render, lk_key, lk_idx, lk_cur, lk_png >>

\* line 3489: with self._compare_render_lock
LkRenderAcquire(t) ==
    /\ lk_pc[t] = "render_wait"
    /\ lk_render = {}
    /\ lk_render' = {t}
    /\ LkGoto(t, "locked")
    /\ UNCHANGED << lk_status, lk_key, lk_idx, lk_cur, lk_stat, lk_png >>

\* lines 3490-3515: the check again; on a miss the export begins
LkLocked(t) ==
    /\ lk_pc[t] = "locked"
    /\ IF lk_png[lk_key[t]] # "none"
       THEN LkGoto(t, "rhit_wait") /\ UNCHANGED lk_status
       ELSE LkGoto(t, "export") /\ lk_status' = HeldIntoExport(t)
    /\ UNCHANGED << lk_render, lk_key, lk_idx, lk_cur, lk_stat, lk_png >>

\* lines 3497-3499: both blocks are left
LkRhitHeld(t) ==
    /\ lk_pc[t] = "rhit_held"
    /\ LkWrite(lk_key[t], lk_png[lk_key[t]])
    /\ lk_status' = {}
    /\ lk_render' = {}
    /\ LkGoto(t, "ret_ok")
    /\ UNCHANGED << lk_key, lk_idx, lk_cur, lk_png >>

\* lines 3504-3534: the external tool and the rasterizer have run; a failure
\* leaves the block, otherwise the before and after bitmaps are saved and
\* QImage.save has opened the file of the diff bitmap: from here exists() is
\* true of the three paths, and the two bitmaps a hit compares give v
LkExported(t) ==
    /\ lk_pc[t] = "export"
    /\ \/ /\ lk_render' = RenderAfterRaise(t)
          /\ LkGoto(t, "ret_raise")
          /\ UNCHANGED lk_png
       \/ \E v \in Verdicts :
            /\ lk_png' = [lk_png EXCEPT ![lk_key[t]] = v]
            /\ LkGoto(t, "saving")
            /\ UNCHANGED lk_render
    /\ UNCHANGED << lk_status, lk_key, lk_idx, lk_cur, lk_stat >>

\* line 3534: diff_img.save has written the file and returns
LkSaved(t) ==
    /\ lk_pc[t] = "saving"
    /\ LkGoto(t, "persist_wait")
    /\ UNCHANGED << lk_status, lk_render, lk_key, lk_idx, lk_cur, lk_stat, lk_png >>

\* lines 3535-3537: the verdict is written, both blocks are left
LkPersistHeld(t) ==
    /\ lk_pc[t] = "persist_held"
    /\ LkWrite(lk_key[t], lk_png[lk_key[t]])
    /\ lk_status' = {}
    /\ lk_render' = {}
    /\ LkGoto(t, "ret_ok")
    /\ UNCHANGED << lk_key, lk_idx, lk_cur, lk_png >>

\* the call returned: line 3431 and after (GUI thread), the next turn of the
\* loop (worker)
LkReturned(t) ==
    /\ lk_pc[t] = "ret_ok"
    /\ LkGoto(t, IF t = GuiThread THEN "idle" ELSE "loop")
    /\ lk_key' = [lk_key EXCEPT ![t] = 0]
    /\ lk_idx' = [w \in Sessions |-> IF w = t THEN lk_idx[w] + 1 ELSE lk_idx[w]]
    /\ UNCHANGED << lk_status, lk_render, lk_cur, lk_stat, lk_png >>

\* the call raised: the except branches of lines 3428 and 3632
LkRaised(t) ==
    /\ lk_pc[t] = "ret_raise"
    /\ LkGoto(t, "err_wait")
    /\ UNCHANGED << lk_status, lk_render, lk_key, lk_idx, lk_cur, lk_stat, lk_png >>

\* lines 3429-3430, 3633-3635
LkErrHeld(t) ==
    /\ lk_pc[t] = "err_held"
    /\ LkWrite(lk_key[t], "error")
    /\ lk_status' = {}
    /\ LkGoto(t, IF t = GuiThread THEN "idle" ELSE "loop")
    /\ lk_key' = [lk_key EXCEPT ![t] = 0]
    /\ lk_idx' = [w \in Sessions |-> IF w = t THEN lk_idx[w] + 1 ELSE lk_idx[w]]
    /\ UNCHANGED << lk_render, lk_cur, lk_png >>

\* the steps of thread t
LkStep(t) ==
    \/ LkStatusAcquire(t)
    \/ (t = GuiThread /\ (LkRefreshBegin \/ LkRefreshHeld \/ LkSelectHeld))
    \/ (t = GuiThread /\ \E k \in Keys : LkSelectBegin(k))
    \/ (t # GuiThread /\ (LkWorkerLoop(t) \/ LkMarkRead(t) \/ LkMarkWrite(t)))
    \/ LkStart(t) \/ LkHitHeld(t) \/ LkRenderAcquire(t) \/ LkLocked(t)
    \/ LkRhitHeld(t) \/ LkExported(t) \/ LkSaved(t) \/ LkPersistHeld(t)
    \/ LkReturned(t) \/ LkRaised(t) \/ LkErrHeld(t)

LockNext ==
    \/ \E t \in Threads : LkStatusAcquire(t) /\ UNCHANGED notLock
    \/ LkRefreshBegin /\ UNCHANGED notLock
    \/ LkRefreshHeld /\ UNCHANGED notLock
    \/ \E k \in Keys : LkSelectBegin(k) /\ UNCHANGED notLock
    \/ LkSelectHeld /\ UNCHANGED notLock
    \/ \E w \in Sessions : LkWorkerLoop(w) /\ UNCHANGED notLock
    \/ \E w \in Sessions : LkMarkRead(w) /\ UNCHANGED notLock
    \/ \E w \in Sessions : LkMarkWrite(w) /\ UNCHANGED notLock
    \/ \E t \in Threads : LkStart(t) /\ UNCHANGED notLock
    \/ \E t \in Threads : LkHitHeld(t) /\ UNCHANGED notLock
    \/ \E t \in Threads : LkRenderAcquire(t) /\ UNCHANGED notLock
    \/ \E t \in Threads : LkLocked(t) /\ UNCHANGED notLock
    \/ \E t \in Threads : LkRhitHeld(t) /\ UNCHANGED notLock
    \/ \E t \in Threads : LkExported(t) /\ UNCHANGED notLock
    \/ \E t \in Threads : LkSaved(t) /\ UNCHANGED notLock
    \/ \E t \in Threads : LkPersistHeld(t) /\ UNCHANGED notLock
    \/ \E t \in Threads : LkReturned(t) /\ UNCHANGED notLock
    \/ \E t \in Threads : LkRaised(t) /\ UNCHANGED notLock
    \/ \E t \in Threads : LkErrHeld(t) /\ UNCHANGED notLock

LockSpec == LockInit /\ [][LockNext]_lockVars

\* ---- one render of a target, lines 3501-3537, and what its caller shows ----
\* A side's document is absent from its FileSet, or kicad-cli fails on it, or
\* the SVG it gives is invalid, or it gives the bitmap `img`.

White == "white"
Ink == "ink"
Red == "red"          \* 0xFFFF4040, the mark of a changed pixel; a colour like another

Pixels(w, h) == (0..(w - 1)) \X (0..(h - 1))

\* the bitmaps the rasterizer can give: a drawing can have any colour
Images ==
    UNION {{[w |-> w, h |-> h, px |-> f] : f \in [Pixels(w, h) -> {White, Ink, Red}]} :
             <<w, h>> \in (1..MaxSide) \X (1..MaxSide)}

\* QImage(width, height, Format_ARGB32) filled with Qt.white
BlankImage(w, h) == [w |-> w, h |-> h, px |-> [p \in Pixels(w, h) |-> White]]

Sides ==
    {[kind |-> k, img |-> BlankImage(1, 1)] : k \in {"absent", "fail", "invalid"}}
        \cup {[kind |-> "ok", img |-> i] : i \in Images}

Max(a, b) == IF a >= b THEN a ELSE b

\* variant: the bitmap is drawn one pixel to the right, whatever its size
pad_image_shifted(image, width, height) ==
    [w |-> width, h |-> height,
     px |-> [p \in Pixels(width, height) |->
               IF p[1] >= 1 /\ p[1] - 1 < image.w /\ p[2] < image.h
               THEN image.px[<< p[1] - 1, p[2] >>] ELSE White]]

\* pad_image, lines 1238-1246
pad_image(image, width, height) ==
    IF image.w = width /\ image.h = height
    THEN image
    ELSE [w |-> width, h |-> height,
          px |-> [p \in Pixels(width, height) |->
                    IF p[1] < image.w /\ p[2] < image.h THEN image.px[p] ELSE White]]

\* images_different, lines 1270-1279
images_different(before, after) ==
    LET width == Max(before.w, after.w)
        height == Max(before.h, after.h)
        b == pad_image(before, width, height)
        a == pad_image(after, width, height)
    IN \E p \in Pixels(width, height) : b.px[p] # a.px[p]

\* make_pixel_diff_image, lines 1249-1267
make_pixel_diff_image(before, after) ==
    LET width == Max(before.w, after.w)
        height == Max(before.h, after.h)
        b == pad_image(before, width, height)
        a == pad_image(after, width, height)
    IN [w |-> width, h |-> height,
        px |-> [p \in Pixels(width, height) |->
                  IF b.px[p] = a.px[p] THEN a.px[p] ELSE Red]]

\* normalize_image_sizes, lines 1282-1285
normalize_image_sizes(before, after) ==
    LET width == Max(before.w, after.w)
        height == Max(before.h, after.h)
    IN << pad_image(before, width, height), pad_image(after, width, height) >>

\* variant: a side without a document is a failure of the export
ExportSvgStrict(side) == IF side.kind \in {"absent", "fail"} THEN "raise" ELSE "svg"

\* _export_compare_svg on `src if src.exists() else None`: None for no
\* source, an exception when kicad-cli fails, else the first SVG
ExportSvg(side) ==
    CASE side.kind = "absent" -> "none"
      [] side.kind = "fail" -> "raise"
      [] OTHER -> "svg"

\* a target whose status on_compare_item_selected has set to rendering, with
\* any two sides
RenderInit ==
    /\ SessionInit /\ LockIdle /\ DiffIdle /\ ZipIdle /\ PureIdle
    /\ before_src \in Sides
    /\ after_src \in Sides
    /\ rd_pc = "export_before"
    /\ before_svg = "none"
    /\ after_svg = "none"
    /\ before_img = << >>
    /\ after_img = << >>
    /\ diff_img = << >>
    /\ rd_exc = "none"
    /\ rd_status = "rendering"
    /\ compare_status_label = "compare_image_rendering"

RdRaise(exc) ==
    /\ rd_pc' = "raised"
    /\ rd_exc' = exc

\* lines 3504-3509
RdExportBefore ==
    /\ rd_pc = "export_before"
    /\ IF ExportSvg(before_src) = "raise"
       THEN RdRaise("export") /\ UNCHANGED before_svg
       ELSE /\ before_svg' = ExportSvg(before_src)
            /\ rd_pc' = "export_after"
            /\ UNCHANGED rd_exc
    /\ UNCHANGED << before_src, after_src, after_svg, before_img, after_img, diff_img,
                    rd_status, compare_status_label >>

\* lines 3510-3515
RdExportAfter ==
    /\ rd_pc = "export_after"
    /\ IF ExportSvg(after_src) = "raise"
       THEN RdRaise("export") /\ UNCHANGED after_svg
       ELSE /\ after_svg' = ExportSvg(after_src)
            /\ rd_pc' = "rasterize"
            /\ UNCHANGED rd_exc
    /\ UNCHANGED << before_src, after_src, before_svg, before_img, after_img, diff_img,
                    rd_status, compare_status_label >>

\* lines 3517-3522: both sides are rasterized, unless there is none
RdRasterize ==
    /\ rd_pc = "rasterize"
    /\ IF before_svg = "none" /\ after_svg = "none"
       THEN RdRaise("compare_image_not_available") /\ UNCHANGED << before_img, after_img >>
       ELSE IF \/ (before_svg = "svg" /\ before_src.kind = "invalid")
               \/ (after_svg = "svg" /\ after_src.kind = "invalid")
            THEN RdRaise("invalid_svg") /\ UNCHANGED << before_img, after_img >>
            ELSE /\ before_img' = IF before_svg = "svg" THEN << before_src.img >> ELSE << >>
                 /\ after_img' = IF after_svg = "svg" THEN << after_src.img >> ELSE << >>
                 /\ rd_pc' = "compose"
                 /\ UNCHANGED rd_exc
    /\ UNCHANGED << before_src, after_src, before_svg, after_svg, diff_img,
                    rd_status, compare_status_label >>

\* lines 3523-3537: the blank for a side without image, the common size, the
\* diff bitmap, the three files, the status
RdCompose ==
    LET b0 == IF before_img = << >>
              THEN BlankImage(after_img[1].w, after_img[1].h) ELSE before_img[1]
        a0 == IF after_img = << >>
              THEN BlankImage(b0.w, b0.h) ELSE after_img[1]
        n == normalize_image_sizes(b0, a0)
    IN
    /\ rd_pc = "compose"
    /\ before_img' = << n[1] >>
    /\ after_img' = << n[2] >>
    /\ diff_img' = << make_pixel_diff_image(n[1], n[2]) >>
    /\ rd_status' = IF images_different(n[1], n[2]) THEN "diff" ELSE "same"
    /\ rd_pc' = "returned"
    /\ UNCHANGED << before_src, after_src, before_svg, after_svg, rd_exc,
                    compare_status_label >>

\* on_compare_item_selected, lines 3428-3439: the caller after the call
RdCaller ==
    /\ rd_pc \in {"returned", "raised"}
    /\ rd_pc' = "done"
    /\ IF rd_pc = "raised"
       THEN /\ rd_status' = "error"
            /\ compare_status_label' = rd_exc
       ELSE /\ compare_status_label' = "compare_image_status_ready"
            /\ UNCHANGED rd_status
    /\ UNCHANGED << before_src, after_src, before_svg, after_svg, before_img, after_img,
                    diff_img, rd_exc >>

RenderNext ==
    \/ RdExportBefore /\ UNCHANGED notRender
    \/ RdExportAfter /\ UNCHANGED notRender
    \/ RdRasterize /\ UNCHANGED notRender
    \/ RdCompose /\ UNCHANGED notRender
    \/ RdCaller /\ UNCHANGED notRender

RenderSpec == RenderInit /\ [][RenderNext]_renderVars

\* ---- compare_file_maps, lines 1126-1139 ----
\* A FileSet is a function from paths to contents; a path is a string, here a
\* sequence of characters 1..NumChars, ordered as Python orders strings.

PathNames == UNION {[1..n -> 1..NumChars] : n \in 1..MaxPathLen}

\* s < t for two strings
LexLess(s, t) ==
    \E i \in 1..(Len(t)) :
        /\ \A j \in 1..(i - 1) : j <= Len(s) /\ s[j] = t[j]
        /\ (i > Len(s) \/ (i <= Len(s) /\ s[i] < t[i]))
        /\ i - 1 <= Len(s)

RECURSIVE sorted(_)
\* variant: the keys in the order opposite to sorted()
RECURSIVE unsorted(_)
unsorted(S) ==
    IF S = {} THEN << >>
    ELSE LET m == CHOOSE x \in S : \A y \in S \ {x} : LexLess(y, x)
         IN << m >> \o unsorted(S \ {m})

\* sorted(a set of strings)
sorted(S) ==
    IF S = {} THEN << >>
    ELSE LET m == CHOOSE x \in S : \A y \in S \ {x} : LexLess(x, y)
         IN << m >> \o sorted(S \ {m})

\* the FileSets with at most MaxFiles files
FileMaps ==
    UNION {[S -> 1..NumContents] :
             S \in {T \in SUBSET PathNames : Cardinality(T) <= MaxFiles}}

\* variant: every key of after counts as added
AddedAll(b, a) == DOMAIN a

\* line 1129: after_keys - before_keys
AddedKeys(b, a) == DOMAIN a \ DOMAIN b

\* variant: nothing counts as removed
RemovedNone(b, a) == {}

\* line 1130: before_keys - after_keys
RemovedKeys(b, a) == DOMAIN b \ DOMAIN a

\* lines 1131-1138: the common keys in sorted order, each appended to
\* unchanged if the contents are equal, else to changed
ChangedKeys(b, a) ==
    SelectSeq(sorted(DOMAIN b \cap DOMAIN a), LAMBDA key : b[key] # a[key])

UnchangedKeys(b, a) ==
    SelectSeq(sorted(DOMAIN b \cap DOMAIN a), LAMBDA key : b[key] = a[key])

\* compare_file_maps(before, after)
compare_file_maps(b, a) ==
    [added |-> sorted(AddedKeys(b, a)),
     removed |-> sorted(RemovedKeys(b, a)),
     changed |-> ChangedKeys(b, a),
     unchanged |-> UnchangedKeys(b, a)]

\* any two FileSets, before the call
DiffInit ==
    /\ SessionInit /\ LockIdle /\ RenderIdle /\ ZipIdle /\ PureIdle
    /\ before_map \in FileMaps
    /\ after_map \in FileMaps
    /\ diff_pc = "call"
    /\ diff_result = [added |-> << >>, removed |-> << >>, changed |-> << >>,
                      unchanged |-> << >>]

\* the call returns its four lists
CompareFileMaps ==
    /\ diff_pc = "call"
    /\ diff_pc' = "returned"
    /\ diff_result' = compare_file_maps(before_map, after_map)
    /\ UNCHANGED << before_map, after_map >>

DiffNext == CompareFileMaps /\ UNCHANGED notDiff

DiffSpec == DiffInit /\ [][DiffNext]_diffVars

\* ---- build_backup_zip_map, lines 1070-1083 ----
\* An entry's name is a string, here a sequence of pieces: a separator ("/"
\* or "\\") or one of a few path components.  An entry whose name ends with
\* "/" is a directory entry of the archive, every other one a file entry.

Slash == "/"
Backslash == "\\"
Components == {"fp-lib-table", "notes.txt", "board.kicad_pcb", "lib"}
Pieces == Components \cup {Slash, Backslash}

\* the names an entry can have: no two components without a separator between
EntryNames ==
    {n \in UNION {[1..l -> Pieces] : l \in 1..MaxNameLen} :
        \A i \in 1..(Len(n) - 1) : ~(n[i] \in Components /\ n[i + 1] \in Components)}

\* str.replace("\\", "/")
ReplaceBackslash(n) == [i \in 1..Len(n) |-> IF n[i] = Backslash THEN Slash ELSE n[i]]

RECURSIVE StripSlash(_)
\* str.strip("/")
StripSlash(n) ==
    IF n = << >> THEN n
    ELSE IF Head(n) = Slash THEN StripSlash(Tail(n))
    ELSE IF n[Len(n)] = Slash THEN StripSlash(SubSeq(n, 1, Len(n) - 1))
    ELSE n

\* name.replace("\\", "/").strip("/")
Normalized(n) == StripSlash(ReplaceBackslash(n))

\* str.endswith("/")
EndsWithSlash(n) == n # << >> /\ n[Len(n)] = Slash

\* Path(normalized).name: the last component
BaseName(n) == n[Len(n)]

\* Path(base_name).suffix for the components at hand
Suffix(c) ==
    CASE c = "notes.txt" -> ".txt"
      [] c = "board.kicad_pcb" -> ".kicad_pcb"
      [] OTHER -> ""

file_names == {"fp-lib-table", "sym-lib-table", "design-block-lib-table"}

suffixes == {".kicad_pro", ".kicad_sch", ".kicad_pcb", ".kicad_sym", ".kicad_mod",
             ".kicad_dru", ".kicad_wks"}

\* is_backup_target_path, lines 1037-1055
is_backup_target_path(rel_path) ==
    LET normalized == Normalized(rel_path) IN
    IF normalized = << >> THEN FALSE
    ELSE BaseName(normalized) \in file_names \/ Suffix(BaseName(normalized)) \in suffixes

\* an archive with at most MaxEntries entries, before the call
ZipInit ==
    /\ SessionInit /\ LockIdle /\ RenderIdle /\ DiffIdle /\ PureIdle
    /\ zip_namelist \in UNION {[1..l -> EntryNames] : l \in 0..MaxEntries}
    /\ zip_i = 1
    /\ zip_result = {}

\* lines 1073-1082: one turn of the loop over zf.namelist()
ZipEntry ==
    LET name == zip_namelist[zip_i]
        normalized == Normalized(name)
    IN
    /\ zip_i <= Len(zip_namelist)
    /\ zip_i' = zip_i + 1
    /\ zip_result' =
          IF normalized = << >> \/ EndsWithSlash(normalized) THEN zip_result
          ELSE IF ~is_backup_target_path(normalized) THEN zip_result
          ELSE zip_result \cup {normalized}
    /\ UNCHANGED zip_namelist

ZipNext == ZipEntry /\ UNCHANGED notZip

ZipSpec == ZipInit /\ [][ZipNext]_zipVars

\* ---- build_git_commit_map, lines 1086-1123 ----
\* The revision's tree is listed by `git ls-tree -r --name-only`, and each
\* retained file is exported by `git show`.  A git command ends with status
\* zero ("ok"), with another status ("fail"), or run_subprocess raises
\* (the 20 s timeout, or no executable).

RepoDir == "lib"

\* the paths `git ls-tree` can print, and the empty line
RepoPaths ==
    {<< >>} \cup {<<c>> : c \in Components} \cup {<<RepoDir, Slash, c>> : c \in Components}

GitEnds == {"ok", "fail", "raise"}

GitLines == [path : RepoPaths, show : GitEnds]

\* str.startswith
StartsWith(n, prefix) == Len(n) >= Len(prefix) /\ SubSeq(n, 1, Len(prefix)) = prefix

\* lines 1108-1114: the path below the project directory
RelPath(repo_path, rel_project) ==
    IF rel_project # "."
    THEN SubSeq(repo_path, Len(<<rel_project, Slash>>) + 1, Len(repo_path))
    ELSE repo_path

\* lines 1105-1116: the loop goes on to `git show` for this line
Retained(repo_path, rel_project) ==
    /\ repo_path # << >>
    /\ rel_project # "." => StartsWith(repo_path, <<rel_project, Slash>>)
    /\ is_backup_target_path(RelPath(repo_path, rel_project))

\* the smaller models before this one are not running
EarlierIdle == SessionInit /\ LockIdle /\ RenderIdle /\ DiffIdle /\ ZipIdle

\* a revision of a project, before the call
GitInit ==
    /\ EarlierIdle /\ TimelineIdle /\ ExportIdle /\ TargetIdle /\ LateIdle
    /\ gm_root \in {"none", "ok"}
    /\ gm_rel \in {".", RepoDir}
    /\ gm_ls \in GitEnds
    /\ gm_lines \in UNION {[1..l -> GitLines] : l \in 0..MaxEntries}
    /\ gm_i = 1
    /\ gm_result = {}
    /\ gm_pc = "root"

\* lines 1087-1090
GmDetectRoot ==
    /\ gm_pc = "root"
    /\ gm_pc' = IF gm_root = "none" THEN "returned" ELSE "ls"
    /\ UNCHANGED << gm_root, gm_rel, gm_ls, gm_lines, gm_i, gm_result >>

\* lines 1097-1102
GmListTree ==
    /\ gm_pc = "ls"
    /\ gm_pc' = CASE gm_ls = "raise" -> "raised"
                  [] gm_ls = "fail" -> "returned"
                  [] OTHER -> "loop"
    /\ UNCHANGED << gm_root, gm_rel, gm_ls, gm_lines, gm_i, gm_result >>

\* lines 1104-1122: one turn of the loop over the lines
GmLine ==
    LET line == gm_lines[gm_i]
        rel_path == RelPath(line.path, gm_rel)
    IN
    /\ gm_pc = "loop"
    /\ gm_i <= Len(gm_lines)
    /\ IF Retained(line.path, gm_rel) /\ line.show = "raise"
       THEN gm_pc' = "raised" /\ UNCHANGED << gm_i, gm_result >>
       ELSE /\ gm_i' = gm_i + 1
            /\ gm_result' = IF Retained(line.path, gm_rel) /\ line.show = "ok"
                            THEN gm_result \cup {rel_path} ELSE gm_result
            /\ UNCHANGED gm_pc
    /\ UNCHANGED << gm_root, gm_rel, gm_ls, gm_lines >>

\* line 1123
GmReturn ==
    /\ gm_pc = "loop"
    /\ gm_i > Len(gm_lines)
    /\ gm_pc' = "returned"
    /\ UNCHANGED << gm_root, gm_rel, gm_ls, gm_lines, gm_i, gm_result >>

GitNext ==
    \/ GmDetectRoot /\ UNCHANGED notGit
    \/ GmListTree /\ UNCHANGED notGit
    \/ GmLine /\ UNCHANGED notGit
    \/ GmReturn /\ UNCHANGED notGit

GitSpec == GitInit /\ [][GitNext]_gitVars

\* ---- refresh_snapshot_timeline, lines 3182-3193 ----
\* A SnapshotItem is its source, its identifier (here the place of the archive
\* or of the commit in what was discovered) and its timestamp.

DEFAULT_TIMELINE_LIMIT == 50

Stamps == 1..MaxStamp

Min(a, b) == IF a <= b THEN a ELSE b

\* q[:n]
Take(q, n) == SubSeq(q, 1, Min(n, Len(q)))

\* variant: no upper end of the range
resolve_timeline_limit_open(raw) ==
    LET value == IF raw # << >> THEN raw[1] ELSE DEFAULT_TIMELINE_LIMIT IN
    IF value < 1 THEN DEFAULT_TIMELINE_LIMIT ELSE value

\* resolve_timeline_limit, lines 3827-3837; raw is << >> when the setting is
\* no integer
resolve_timeline_limit(raw) ==
    LET value == IF raw # << >> THEN raw[1] ELSE DEFAULT_TIMELINE_LIMIT IN
    IF value < 1 THEN DEFAULT_TIMELINE_LIMIT
    ELSE IF value > 500 THEN 500
    ELSE value

RECURSIVE InsertNewestFirst(_, _)
\* x, which stood before every item of the sorted q, put in its place
InsertNewestFirst(x, q) ==
    IF q = << >> THEN << x >>
    ELSE IF x.timestamp >= Head(q).timestamp THEN << x >> \o q
    ELSE << Head(q) >> \o InsertNewestFirst(x, Tail(q))

\* variant: the items are left in the order of discovery
as_collected(q) == q

RECURSIVE sorted_newest_first(_)
\* sorted(q, key=lambda x: x.timestamp, reverse=True): stable
sorted_newest_first(q) ==
    IF q = << >> THEN q ELSE InsertNewestFirst(Head(q), sorted_newest_first(Tail(q)))

SnapshotItem(source, identifier, timestamp) ==
    [source |-> source, identifier |-> identifier, timestamp |-> timestamp]

\* variant: the archives are cut to `limit` in the order of discovery
collect_backup_items_first(zips, limit) ==
    LET ok == SelectSeq([i \in 1..Len(zips) |-> i], LAMBDA i : zips[i].stat)
        items == [j \in 1..Len(ok) |-> SnapshotItem("backup", ok[j], zips[ok[j]].mtime)]
    IN sorted_newest_first(Take(items, limit))

\* collect_backup_items, lines 1404-1421: an item for each archive whose
\* stat() works
collect_backup_items(zips, limit) ==
    LET ok == SelectSeq([i \in 1..Len(zips) |-> i], LAMBDA i : zips[i].stat)
        items == [j \in 1..Len(ok) |-> SnapshotItem("backup", ok[j], zips[ok[j]].mtime)]
    IN Take(sorted_newest_first(items), limit)

\* variant: the ValueError of a timestamp is not handled
ParseCatchesNothing == {}

\* line 1447: except ValueError
ParseCatches == {"ValueError"}

\* `git log -n{limit}` prints the first `limit` commits of the history
LogOutput(lines, limit) == Take(lines, limit)

\* a line of the log: "ok" is hash, ISO time and subject; "parts" does not
\* split in three at the separator; "time" has a time fromisoformat rejects
LogLineKinds == {"ok", "parts", "time"}

\* collect_git_items, lines 1424-1462: what it returns, or that it raises
collect_git_items(root, log, lines, limit) ==
    LET out == LogOutput(lines, limit)
        ok == SelectSeq([i \in 1..Len(out) |-> i], LAMBDA i : out[i].kind = "ok")
        items == [j \in 1..Len(ok) |-> SnapshotItem("git", ok[j], out[ok[j]].ts)]
    IN
    IF root = "none" \/ log # "ok"
    THEN [raised |-> FALSE, items |-> << >>]
    ELSE IF (\E i \in 1..Len(out) : out[i].kind = "time") /\ "ValueError" \notin ParseCatches
    THEN [raised |-> TRUE, items |-> << >>]
    ELSE [raised |-> FALSE, items |-> Take(sorted_newest_first(items), limit)]

\* the settings that can be stored
ConfiguredLimits == {<< >>} \cup {<<n>> : n \in {-1, 0, 1, 2, 3, 500, 501}}

\* a project with its archives and its history, before the timeline is built
TimelineInit ==
    /\ EarlierIdle /\ GitIdle /\ ExportIdle /\ TargetIdle /\ LateIdle
    /\ tl_raw \in ConfiguredLimits
    /\ tl_zips \in UNION {[1..l -> [mtime : Stamps, stat : BOOLEAN]] : l \in 0..MaxEntries}
    /\ tl_git_path \in BOOLEAN
    /\ tl_root \in {"none", "ok"}
    /\ tl_log \in GitEnds
    /\ tl_lines \in UNION {[1..l -> [kind : LogLineKinds, ts : Stamps]] : l \in 0..MaxEntries}
    /\ tl_limit = 0
    /\ tl_backups = << >>
    /\ tl_commits = << >>
    /\ snapshot_items_all = << >>
    /\ tl_pc = "limit"

\* line 3189
TlResolveLimit ==
    /\ tl_pc = "limit"
    /\ tl_limit' = resolve_timeline_limit(tl_raw)
    /\ tl_pc' = "backups"
    /\ UNCHANGED << tl_raw, tl_zips, tl_git_path, tl_root, tl_log, tl_lines,
                    tl_backups, tl_commits, snapshot_items_all >>

\* line 3190
TlCollectBackups ==
    /\ tl_pc = "backups"
    /\ tl_backups' = collect_backup_items(tl_zips, tl_limit)
    /\ tl_pc' = "commits"
    /\ UNCHANGED << tl_raw, tl_zips, tl_git_path, tl_root, tl_log, tl_lines,
                    tl_limit, tl_commits, snapshot_items_all >>

\* line 3191
TlCollectGit ==
    LET r == collect_git_items(tl_root, tl_log, tl_lines, tl_limit) IN
    /\ tl_pc = "commits"
    /\ IF ~tl_git_path
       THEN tl_commits' = << >> /\ tl_pc' = "merge"
       ELSE tl_commits' = r.items /\ tl_pc' = IF r.raised THEN "raised" ELSE "merge"
    /\ UNCHANGED << tl_raw, tl_zips, tl_git_path, tl_root, tl_log, tl_lines,
                    tl_limit, tl_backups, snapshot_items_all >>

\* line 3192
TlMerge ==
    /\ tl_pc = "merge"
    /\ snapshot_items_all' = Take(sorted_newest_first(tl_backups \o tl_commits), tl_limit)
    /\ tl_pc' = "done"
    /\ UNCHANGED << tl_raw, tl_zips, tl_git_path, tl_root, tl_log, tl_lines,
                    tl_limit, tl_backups, tl_commits >>

TimelineNext ==
    \/ TlResolveLimit /\ UNCHANGED notTimeline
    \/ TlCollectBackups /\ UNCHANGED notTimeline
    \/ TlCollectGit /\ UNCHANGED notTimeline
    \/ TlMerge /\ UNCHANGED notTimeline

TimelineSpec == TimelineInit /\ [][TimelineNext]_timelineVars

\* ---- export_svg_bundle_with_kicad_cli, lines 1156-1218 ----
\* A text (last_err, the message of an exception) is a tuple; << >> is "".

\* lines 1164-1203: the list of commands, each named by what sets it apart
commands(kind, pcb_layers) ==
    IF kind = "sch" THEN << "sch" >>
    ELSE IF pcb_layers THEN << "layer" >>
    ELSE << "F.Cu,B.Cu,F.SilkS,B.SilkS,Edge.Cuts", "F.Cu,B.Cu", "F.Cu" >>

\* how a run of kicad-cli can end: its exit status, or the 40 s timeout of
\* run_subprocess; whether it wrote an SVG; whether it printed anything
RunEnds == [exit : {"zero", "nonzero", "timeout"}, svg : BOOLEAN, text : BOOLEAN]

\* variant: a timeout is taken as a failed run, and the loop goes on
TimeoutIsFailure == TRUE

\* line 1206: subprocess.TimeoutExpired is not handled in the loop
TimeoutHandled == FALSE

\* line 1213: (result.stderr or result.stdout or "").strip() or "kicad-cli export failed"
FailureText(i, run) == IF run.text THEN << "stderr", i >> ELSE << "kicad-cli export failed" >>

\* a call, before the loop
ExportInit ==
    /\ EarlierIdle /\ GitIdle /\ TimelineIdle /\ TargetIdle /\ LateIdle
    /\ ex_kind \in {"sch", "pcb"}
    /\ ex_layer \in (IF ex_kind = "pcb" THEN BOOLEAN ELSE {FALSE})
    /\ ex_runs \in [1..Len(commands(ex_kind, ex_layer)) -> RunEnds]
    /\ ex_stale \in BOOLEAN
    /\ ex_i = 1
    /\ ex_svgs = ex_stale
    /\ ex_last_err = << >>
    /\ ex_tried = << >>
    /\ ex_exc = << >>
    /\ ex_pc = "loop"

\* lines 1205-1213: one turn of the loop
ExRun ==
    LET run == ex_runs[ex_i]
        svgs == ex_svgs \/ run.svg
    IN
    /\ ex_pc = "loop"
    /\ ex_i <= Len(ex_runs)
    /\ ex_tried' = Append(ex_tried, ex_i)
    /\ ex_svgs' = svgs
    /\ IF run.exit = "timeout" /\ ~TimeoutHandled
       THEN /\ ex_pc' = "raised"
            /\ ex_exc' = << "TimeoutExpired", ex_i >>
            /\ UNCHANGED << ex_i, ex_last_err >>
       ELSE IF run.exit = "zero" /\ svgs
       THEN /\ ex_pc' = "returned"
            /\ UNCHANGED << ex_i, ex_last_err, ex_exc >>
       ELSE /\ ex_last_err' = CASE run.exit = "zero" -> << "No SVG exported by kicad-cli" >>
                                [] run.exit = "timeout" -> << "TimeoutExpired", ex_i >>
                                [] OTHER -> FailureText(ex_i, run)
            /\ ex_i' = ex_i + 1
            /\ UNCHANGED << ex_pc, ex_exc >>
    /\ UNCHANGED << ex_kind, ex_layer, ex_runs, ex_stale >>

\* line 1214: raise RuntimeError(last_err or "kicad-cli export failed")
ExRaise ==
    /\ ex_pc = "loop"
    /\ ex_i > Len(ex_runs)
    /\ ex_pc' = "raised"
    /\ ex_exc' = IF ex_last_err # << >> THEN ex_last_err ELSE << "kicad-cli export failed" >>
    /\ UNCHANGED << ex_kind, ex_layer, ex_runs, ex_stale, ex_i, ex_svgs, ex_last_err,
                    ex_tried >>

ExportNext ==
    \/ ExRun /\ UNCHANGED notExport
    \/ ExRaise /\ UNCHANGED notExport

ExportSpec == ExportInit /\ [][ExportNext]_exportVars

\* ---- populate_compare_item_list, lines 3338-3393: the targets ----
\* A path below a root is a sequence of names, written here by their places
\* in DocNames; "/" stands between them.  DocNames is in the order of Python
\* strings and no name is a prefix of another, so LexLess orders the paths as
\* sorted() does.

DocNames == << "a.kicad_sch", "d.kicad_sch", "m.kicad_pcb", "n.kicad_pcb" >>

\* the keys a FileSet can have: files at the top, and a file in a directory
DocPaths == {<< i >> : i \in 1..Len(DocNames)} \cup {<< 2, 1 >>}

\* Path(name).suffix
DocSuffix(i) == IF i \in {1, 2} THEN ".kicad_sch" ELSE ".kicad_pcb"

\* the directories write_file_map makes for the keys F (line 1145)
Parents(F) == UNION {{SubSeq(q, 1, k) : k \in 1..(Len(q) - 1)} : q \in F}

\* write_file_map can write F: no key is a directory of another key
Writable(F) == \A q \in F, r \in F : q = r \/ ~StartsWith(r, q)

\* root.rglob("*" + suffix) after write_file_map(root, F): the files and the
\* directories whose name ends with the suffix
rglob(F, suffix) == {q \in F \cup Parents(F) : DocSuffix(q[Len(q)]) = suffix}

\* (root / rel_path).exists()
exists(F, rel_path) == rel_path \in F \cup Parents(F)

NoLayer == ""

\* what detect_pcb_layers or parse_pcb_layers_from_file gives for a document:
\* names without repetition
LayerLists == {<< >>, << "F.Cu" >>, << "B.Cu", "F.Cu" >>}

RECURSIVE KeepLast(_)
\* variant: of a repeated name the last occurrence is kept
KeepLast(q) ==
    IF q = << >> THEN q
    ELSE IF \E i \in 2..Len(q) : q[i] = Head(q) THEN KeepLast(Tail(q))
    ELSE << Head(q) >> \o KeepLast(Tail(q))

RECURSIVE KeepFirst(_)
\* list(dict.fromkeys(q))
KeepFirst(q) ==
    IF q = << >> THEN q
    ELSE << Head(q) >> \o KeepFirst(SelectSeq(Tail(q), LAMBDA x : x # Head(q)))

Target(kind, path, layer) == [kind |-> kind, path |-> path, layer |-> layer]

\* lines 3375-3384: the layers of one board path, both sides
BoardLayers(rel_path) ==
    (IF exists(tg_before, rel_path) THEN tg_layers.before[rel_path] ELSE << >>)
        \o (IF exists(tg_after, rel_path) THEN tg_layers.after[rel_path] ELSE << >>)

\* two FileSets written to their roots, and the layers of their boards
TargetInit ==
    /\ EarlierIdle /\ GitIdle /\ TimelineIdle /\ ExportIdle /\ LateIdle
    /\ tg_before \in {F \in SUBSET DocPaths : Writable(F)}
    /\ tg_after \in {F \in SUBSET DocPaths : Writable(F)}
    /\ tg_layers \in [before : [rglob(tg_before, ".kicad_pcb") -> LayerLists],
                       after : [rglob(tg_after, ".kicad_pcb") -> LayerLists]]
    /\ tg_targets = << >>
    /\ tg_boards = << >>
    /\ tg_pc = "sheets"

\* lines 3350-3360 and 3362-3365
TgSheets ==
    LET sch_paths == sorted(rglob(tg_before, ".kicad_sch") \cup rglob(tg_after, ".kicad_sch"))
    IN
    /\ tg_pc = "sheets"
    /\ tg_targets' = [i \in 1..Len(sch_paths) |-> Target("sch", sch_paths[i], NoLayer)]
    /\ tg_boards' = sorted(rglob(tg_before, ".kicad_pcb") \cup rglob(tg_after, ".kicad_pcb"))
    /\ tg_pc' = "boards"
    /\ UNCHANGED << tg_before, tg_after, tg_layers >>

\* lines 3366-3391: one turn of the loop over pcb_paths
TgBoard ==
    LET rel_path == Head(tg_boards)
        layers == KeepFirst(BoardLayers(rel_path))
    IN
    /\ tg_pc = "boards"
    /\ tg_boards # << >>
    /\ tg_targets' = tg_targets \o << Target("pcb", rel_path, NoLayer) >>
                        \o [i \in 1..Len(layers) |-> Target("pcb", rel_path, layers[i])]
    /\ tg_boards' = Tail(tg_boards)
    /\ UNCHANGED << tg_before, tg_after, tg_layers, tg_pc >>

\* line 3393
TgDone ==
    /\ tg_pc = "boards"
    /\ tg_boards = << >>
    /\ tg_pc' = "done"
    /\ UNCHANGED << tg_before, tg_after, tg_layers, tg_targets, tg_boards >>

TargetNext ==
    \/ TgSheets /\ UNCHANGED notTarget
    \/ TgBoard /\ UNCHANGED notTarget
    \/ TgDone /\ UNCHANGED notTarget

TargetSpec == TargetInit /\ [][TargetNext]_targetVars

\* ---- render_svg_to_image, lines 1221-1235: the size of the bitmap ----

\* the widths and heights a document's defaultSize() is drawn from
IntrinsicSizes == {-1, 0, 1, 2, 1000, 1400, 1999, 2000, 2001, 4000}

\* variant: the size is not cut at 2000
image_side_open(intrinsic, fallback) ==
    Max(1, IF intrinsic > 0 THEN intrinsic ELSE fallback)

\* lines 1227-1228: max(1, min(size if size > 0 else fallback, 2000))
image_side(intrinsic, fallback) ==
    Max(1, Min(IF intrinsic > 0 THEN intrinsic ELSE fallback, 2000))

\* a document handed to QSvgRenderer
SizeInit ==
    /\ EarlierIdle /\ MiddleIdle /\ LayerIdle /\ NameIdle /\ TripIdle /\ LoadIdle
    /\ sz_valid \in BOOLEAN
    /\ sz_width \in IntrinsicSizes
    /\ sz_height \in IntrinsicSizes
    /\ sz_image = << >>
    /\ sz_pc = "call"

\* lines 1223-1224: raise RuntimeError("Invalid SVG")
SzInvalid ==
    /\ sz_pc = "call" /\ ~sz_valid
    /\ sz_pc' = "raised"
    /\ UNCHANGED << sz_valid, sz_width, sz_height, sz_image >>

\* lines 1226-1235
SzRender ==
    /\ sz_pc = "call" /\ sz_valid
    /\ sz_image' = << image_side(sz_width, 1400), image_side(sz_height, 1000) >>
    /\ sz_pc' = "returned"
    /\ UNCHANGED << sz_valid, sz_width, sz_height >>

SizeNext ==
    \/ SzInvalid /\ UNCHANGED notSize
    \/ SzRender /\ UNCHANGED notSize

SizeSpec == SizeInit /\ [][SizeNext]_sizeVars

\* ---- detect_pcb_layers, lines 1305-1324 ----

\* the first token of a line of the listing: a name with a ".", a word
\* without one, or nothing (a blank line)
DottedTokens == {"F.Cu", "B.Cu"}
Tokens == DottedTokens \cup {"Layer", ""}

\* variant: every word counts as a layer
is_any_token(token) == token # ""

\* line 1320: if token and "." in token
is_layer_token(token) == token # "" /\ token \in DottedTokens

\* how a listing command ends: an exception of run_subprocess (the timeout
\* of 10 s among them), a return code other than 0, or return code 0
ListingRuns == [exit : {"raise", "nonzero", "zero"},
                lines : UNION {[1..l -> Tokens] : l \in 0..MaxEntries}]

\* lines 1317-1321: the layers of one listing
listed_layers(run) == SelectSeq(run.lines, is_layer_token)

\* a board document and the two candidate commands
LayerInit ==
    /\ EarlierIdle /\ MiddleIdle /\ SizeIdle /\ NameIdle /\ TripIdle /\ LoadIdle
    /\ ly_runs \in [1..2 -> ListingRuns]
    /\ ly_scan \in LayerLists
    /\ ly_i = 1
    /\ ly_layers = << >>
    /\ ly_from = "none"
    /\ ly_pc = "loop"

\* lines 1310-1323: one turn of the loop over the candidates
LyCandidate ==
    /\ ly_pc = "loop" /\ ly_i <= 2
    /\ LET run == ly_runs[ly_i] IN
       IF run.exit = "zero" /\ listed_layers(run) # << >>
       THEN /\ ly_layers' = KeepFirst(listed_layers(run))
            /\ ly_from' = "listing"
            /\ ly_pc' = "returned"
            /\ UNCHANGED ly_i
       ELSE /\ ly_i' = ly_i + 1
            /\ UNCHANGED << ly_layers, ly_from, ly_pc >>
    /\ UNCHANGED << ly_runs, ly_scan >>

\* line 1324: return parse_pcb_layers_from_file(pcb_path)
LyScan ==
    /\ ly_pc = "loop" /\ ly_i > 2
    /\ ly_layers' = ly_scan
    /\ ly_from' = "scan"
    /\ ly_pc' = "returned"
    /\ UNCHANGED << ly_runs, ly_scan, ly_i >>

LayerNext ==
    \/ LyCandidate /\ UNCHANGED notLayer
    \/ LyScan /\ UNCHANGED notLayer

LayerSpec == LayerInit /\ [][LayerNext]_layerVars

\* ---- the names of a target's storage, lines 3441-3463 and 3503 ----
\* A string is the sequence of its pieces: a piece is a character or a run of
\* characters of [A-Za-z0-9._-] that is kept whole.

\* the pieces that re.sub(r"[^A-Za-z0-9._-]+", "_", key) replaces
Unsafe == {"/", "|"}

\* the stems of relative paths: no "/" at an end, no empty component
Stems ==
    {q \in UNION {[1..l -> {"x", "_", "/"}] : l \in 1..3} :
        /\ q[1] # "/" /\ q[Len(q)] # "/"
        /\ \A i \in 1..(Len(q) - 1) : ~(q[i] = "/" /\ q[i + 1] = "/")}

\* the targets populate_compare_item_list can build: a sheet, a board, a
\* layer of a board
NameTargets ==
    {Target("sch", q \o << ".kicad_sch" >>, NoLayer) : q \in Stems}
        \cup {Target("pcb", q \o << ".kicad_pcb" >>, l) : q \in Stems, l \in {NoLayer, "F.Cu"}}

\* lines 3441-3442: f"{kind or ''}|{path or ''}|{layer or ''}"
compare_target_key(target) ==
    << target.kind, "|" >> \o target.path \o << "|" >>
        \o (IF target.layer = NoLayer THEN << >> ELSE << target.layer >>)

RECURSIVE sanitized(_)
\* line 3503: every run of other characters becomes one "_"
sanitized(q) ==
    IF q = << >> THEN q
    ELSE IF Head(q) \notin Unsafe THEN << Head(q) >> \o sanitized(Tail(q))
    ELSE IF Len(q) > 1 /\ q[2] \in Unsafe THEN sanitized(Tail(q))
    ELSE << "_" >> \o sanitized(Tail(q))

\* lines 3456-3463: the digest of the key names the three files; distinct
\* keys are taken to have distinct SHA-1 digests
cache_paths(key) ==
    {<< "cache", key, side >> : side \in {"_before.png", "_after.png", "_diff.png"}}

\* two different targets of one list
NameInit ==
    /\ EarlierIdle /\ MiddleIdle /\ SizeIdle /\ LayerIdle /\ TripIdle /\ LoadIdle
    /\ nm_targets \in {p \in [1..2 -> NameTargets] : p[1] # p[2]}
    /\ nm_keys = << >>
    /\ nm_cache = << >>
    /\ nm_dirs = << >>
    /\ nm_pc = "key"

\* _compare_target_key
NmKey ==
    /\ nm_pc = "key"
    /\ nm_keys' = [i \in 1..2 |-> compare_target_key(nm_targets[i])]
    /\ nm_pc' = "cache"
    /\ UNCHANGED << nm_targets, nm_cache, nm_dirs >>

\* _cache_paths_for_target
NmCache ==
    /\ nm_pc = "cache"
    /\ nm_cache' = [i \in 1..2 |-> cache_paths(nm_keys[i])]
    /\ nm_pc' = "export"
    /\ UNCHANGED << nm_targets, nm_keys, nm_dirs >>

\* lines 3503-3515: compare_render_root / "before" / key, and "after"
NmExportDir ==
    /\ nm_pc = "export"
    /\ nm_dirs' = [i \in 1..2 |-> sanitized(nm_keys[i])]
    /\ nm_pc' = "done"
    /\ UNCHANGED << nm_targets, nm_keys, nm_cache >>

NameNext ==
    \/ NmKey /\ UNCHANGED notName
    \/ NmCache /\ UNCHANGED notName
    \/ NmExportDir /\ UNCHANGED notName

NameSpec == NameInit /\ [][NameNext]_nameVars

\* ---- create_project_backup, and the two maps of the same project ----
\* A relative path is the sequence of its pieces, as rel.as_posix() and
\* str(arcname) write it where the separator is "/": a Backslash is then a
\* character of a file name.

\* the paths of the project directory that can hold something
TreePaths == {<< "fp-lib-table" >>, << "notes.txt" >>, << "board.kicad_pcb" >>,
              << "lib", Slash, "board.kicad_pcb" >>,
              << "lib", Backslash, "board.kicad_pcb" >>}

Absent == [kind |-> "absent", content |-> 0, readable |-> FALSE]
Directory == [kind |-> "dir", content |-> 0, readable |-> FALSE]
RegularFiles == [kind : {"file"}, content : 1..NumContents, readable : BOOLEAN]

\* the pieces of path.name: what follows the last separator
PathName(path) ==
    LET cut == {i \in 1..Len(path) : path[i] = Slash}
        last == IF cut = {} THEN 0 ELSE CHOOSE i \in cut : \A j \in cut : j <= i
    IN SubSeq(path, last + 1, Len(path))

\* line 1032: path.name in file_names or path.suffix in suffixes
Whitelisted(path) ==
    LET name == PathName(path) IN
    \/ Len(name) = 1 /\ name[1] \in file_names
    \/ Suffix(name[Len(name)]) \in suffixes

\* backup_whitelist_paths, lines 1016-1034: the regular files that pass
backup_whitelist_paths(tree) ==
    {path \in TreePaths : tree[path].kind = "file" /\ Whitelisted(path)}

\* dict[key] = value
Put(d, key, value) == {e \in d : e[1] # key} \cup {<< key, value >>}

RECURSIVE build_backup_zip_map(_)
\* build_backup_zip_map, lines 1070-1083, of the entries in archive order
build_backup_zip_map(entries) ==
    IF entries = << >> THEN {}
    ELSE LET front == build_backup_zip_map(SubSeq(entries, 1, Len(entries) - 1))
             entry == entries[Len(entries)]
             normalized == Normalized(entry.name)
         IN IF normalized = << >> \/ EndsWithSlash(normalized) THEN front
            ELSE IF ~is_backup_target_path(normalized) THEN front
            ELSE Put(front, normalized, entry.data)

\* build_current_project_map, lines 1058-1067: a file that cannot be read is
\* left out
build_current_project_map(tree) ==
    {<< path, tree[path].content >> :
        path \in {q \in backup_whitelist_paths(tree) : tree[q].readable}}

\* the orders in which rglob can yield the members of S
Orders(S) ==
    {q \in [1..Cardinality(S) -> S] : \A i, j \in 1..Cardinality(S) : i # j => q[i] # q[j]}

\* a project directory
TripInit ==
    /\ EarlierIdle /\ MiddleIdle /\ SizeIdle /\ LayerIdle /\ NameIdle /\ LoadIdle
    /\ rt_tree \in {t \in [TreePaths -> RegularFiles \cup {Absent, Directory}] :
                       \A path \in TreePaths :
                           t[path] = Directory => path = << "board.kicad_pcb" >>}
    /\ rt_archive = << >>
    /\ rt_back = {}
    /\ rt_current = {}
    /\ rt_pc = "backup"

\* create_project_backup, lines 1346-1368: zf.write of each file under its
\* relative path; a file that cannot be read makes it raise
RtBackup ==
    /\ rt_pc = "backup"
    /\ LET selected == backup_whitelist_paths(rt_tree) IN
       IF \E path \in selected : ~rt_tree[path].readable
       THEN rt_pc' = "raised" /\ UNCHANGED rt_archive
       ELSE /\ \E order \in Orders(selected) :
                 rt_archive' = [i \in 1..Len(order) |->
                                  [name |-> order[i], data |-> rt_tree[order[i]].content]]
            /\ rt_pc' = "read"
    /\ UNCHANGED << rt_tree, rt_back, rt_current >>

\* build_backup_zip_map of the archive written
RtReadBack ==
    /\ rt_pc = "read"
    /\ rt_back' = build_backup_zip_map(rt_archive)
    /\ rt_pc' = "current"
    /\ UNCHANGED << rt_tree, rt_archive, rt_current >>

\* build_current_project_map of the directory, unchanged since the backup
RtCurrent ==
    /\ rt_pc = "current"
    /\ rt_current' = build_current_project_map(rt_tree)
    /\ rt_pc' = "done"
    /\ UNCHANGED << rt_tree, rt_archive, rt_back >>

TripNext ==
    \/ RtBackup /\ UNCHANGED notTrip
    \/ RtReadBack /\ UNCHANGED notTrip
    \/ RtCurrent /\ UNCHANGED notTrip

TripSpec == TripInit /\ [][TripNext]_tripVars

\* ---- open_compare_from_snapshot and _prepare_compare_after_show ----
\* The request shows the page and queues the preparation; the preparation
\* loads the two sources and only then tears the previous comparison down.

\* the target lists a pair of loaded sources can give
TargetLists == {SeqOf(S) : S \in MapChoices}

\* the window before any comparison
LoadInit ==
    /\ EarlierIdle /\ MiddleIdle /\ SizeIdle /\ LayerIdle /\ NameIdle /\ TripIdle
    /\ ld_n = 0
    /\ ld_pc = "idle"
    /\ ld_last = "none"
    /\ ld_labels = << >>
    /\ ld_list = << >>
    /\ ld_timer = FALSE
    /\ ld_stop = FALSE
    /\ ld_worker = [w \in Sessions |-> "unstarted"]
    /\ ld_idx = [w \in Sessions |-> 0]

\* open_compare_from_snapshot, lines 3162-3166: show_compare_page clears the
\* widget, the preparation is queued
LdOpen ==
    /\ ld_pc = "idle" /\ ld_n < MaxSessions
    /\ ld_n' = ld_n + 1
    /\ ld_list' = << >>
    /\ ld_pc' = "queued"
    /\ ld_last' = "none"
    /\ UNCHANGED << ld_labels, ld_timer, ld_stop, ld_worker, ld_idx >>

\* _prepare_compare_after_show, lines 3285-3286 raise: the except branch
\* sets the status label, the finally branch clears the pending ids
LdLoadFails ==
    /\ ld_pc = "queued"
    /\ ld_pc' = "idle"
    /\ ld_last' = "failed"
    /\ UNCHANGED << ld_n, ld_labels, ld_list, ld_timer, ld_stop, ld_worker, ld_idx >>

\* _prepare_compare_after_show, lines 3285-3296: the sources are loaded, the
\* previous comparison is torn down (timer stopped, stop set), the list is
\* populated and, if it has targets, the timer and a worker are started
LdPrepare ==
    /\ ld_pc = "queued"
    /\ \E targets \in TargetLists :
         /\ ld_labels' = targets
         /\ ld_list' = targets
         /\ ld_timer' = (targets # << >>)
         /\ ld_stop' = (targets = << >>)
         /\ ld_worker' = IF targets = << >> THEN ld_worker
                          ELSE [ld_worker EXCEPT ![ld_n] = "loop"]
         /\ ld_idx' = [ld_idx EXCEPT ![ld_n] = Len(targets)]
    /\ ld_pc' = "idle"
    /\ ld_last' = "ok"
    /\ UNCHANGED ld_n

\* the refresh timer fires: _refresh_compare_item_list_labels, lines
\* 3590-3605, fills the widget from compare_target_labels
LdTick ==
    /\ ld_timer
    /\ ld_list' = ld_labels
    /\ UNCHANGED << ld_n, ld_pc, ld_last, ld_labels, ld_timer, ld_stop, ld_worker, ld_idx >>

\* lines 3623-3629: the head of the worker's loop; the next target is taken
\* up unless the list is at its end or stop is set
LdWorkerCheck(w) ==
    /\ ld_worker[w] = "loop"
    /\ ld_worker' = [ld_worker EXCEPT
                       ![w] = IF ld_stop \/ ld_idx[w] = 0 THEN "done" ELSE "rendering"]
    /\ UNCHANGED << ld_n, ld_pc, ld_last, ld_labels, ld_list, ld_timer, ld_stop, ld_idx >>

\* lines 3630-3635: _ensure_compare_target_cache of the target has ended
LdWorkerRender(w) ==
    /\ ld_worker[w] = "rendering"
    /\ ld_worker' = [ld_worker EXCEPT ![w] = "loop"]
    /\ ld_idx' = [ld_idx EXCEPT ![w] = ld_idx[w] - 1]
    /\ UNCHANGED << ld_n, ld_pc, ld_last, ld_labels, ld_list, ld_timer, ld_stop >>

LoadNext ==
    \/ LdOpen /\ UNCHANGED notLoad
    \/ LdLoadFails /\ UNCHANGED notLoad
    \/ LdPrepare /\ UNCHANGED notLoad
    \/ LdTick /\ UNCHANGED notLoad
    \/ \E w \in Sessions : LdWorkerCheck(w) /\ UNCHANGED notLoad
    \/ \E w \in Sessions : LdWorkerRender(w) /\ UNCHANGED notLoad

LoadSpec == LoadInit /\ [][LoadNext]_loadVars

\* ---- properties ----

\* the temporary directories named by the roots are those of the live session
Live == compare_tmp_obj # NoRoot /\ compare_render_root = compare_tmp_obj

\* populate_compare_item_list has finished for the current comparison
Populated == ncompare > 0 /\ gpc \in {"idle", "sel_call", "start"}

\* thread t's call of _ensure_compare_target_cache raises in this step
Raises(t) == epc[t] \notin {"none", "ret_raise"} /\ epc'[t] = "ret_raise"

\* worker w handles the exception of its call in this step
WorkerHandles(w) == wpc[w] = "incall" /\ epc[w] = "ret_raise" /\ epc'[w] = "none"

\* the GUI thread handles the exception of _render_compare_target in this step
GuiHandles == gpc = "sel_call" /\ epc[GuiThread] = "ret_raise" /\ epc'[GuiThread] = "none"

\* C1: within one comparison session a status that is same, diff or error is
\* never changed to another value by any later step (the step that populates
\* the list of a new comparison begins a new session and is exempt).
C1_TerminalStatusKept ==
    [][gpc # "populate" =>
         \A k \in Keys : compare_target_status[k] \in Terminal =>
                            compare_target_status'[k] = compare_target_status[k]]_vars

\* C2: at most one invocation of the external tool is running at any time.
C2_OneToolInvocation == Cardinality({t \in Threads : ToolRunning(t)}) <= 1

C4_RenderedAtMostOnce ==
    \A t \in Threads :
        (Rendering(t) /\ epaths[t] = compare_tmp_obj) => files[epaths[t]][ekey[t]] = "none"

\* C4 witness: a thread that missed, waited for the render lock and found the
\* entry made meanwhile by another thread.
C4_Witness == \E t \in Threads : epc[t] = "hit_locked" /\ epaths[t] = compare_tmp_obj

\* C5: when a worker's call raises, the worker goes back to the head of its
\* loop with the next index and the same list; it leaves the loop only when
\* the list is exhausted or the stop event is set; and the target it takes up
\* is the one at its index, so the list is walked in order.
C5_WorkerGoesOnAfterFailure ==
    [][\A w \in Sessions :
         /\ WorkerHandles(w) =>
               (wpc'[w] = "loop" /\ widx'[w] = widx[w] + 1 /\ wtargets'[w] = wtargets[w])
         /\ (Alive(w) /\ wpc'[w] = "done") =>
               (wpc[w] = "loop" /\ (compare_precache_stop \/ widx[w] > Len(wtargets[w])))
         /\ (wpc[w] = "mark" /\ wpc'[w] = "incall") => ekey'[w] = wtargets[w][widx[w]]]_vars

\* C5 witness: a worker is rendering its second target after the first one
\* failed in its hands.
C5_Witness ==
    \E w \in Sessions :
        /\ wpc[w] = "incall" /\ widx[w] = 2 /\ epc[w] = "export"
        /\ compare_target_status[wtargets[w][1]] = "error"
        /\ statusBy[wtargets[w][1]] = w

\* C6: a failing render changes no status and no cache entry, and the handler
\* of the failure (worker or GUI thread) sets the status of that one target to
\* error and leaves every other status and every cache entry as they were.
C6_FailureScopedToTarget ==
    [][/\ \A t \in Threads :
            Raises(t) => (compare_target_status' = compare_target_status /\ files' = files)
       /\ \A w \in Sessions :
            WorkerHandles(w) =>
               /\ compare_target_status' = [compare_target_status EXCEPT ![ekey[w]] = "error"]
               /\ files' = files /\ compare_render_cache' = compare_render_cache
       /\ GuiHandles =>
               /\ compare_target_status' =
                     [compare_target_status EXCEPT ![ekey[GuiThread]] = "error"]
               /\ files' = files /\ compare_render_cache' = compare_render_cache]_vars

\* C6 witness: one target is in error after a failed render while another one
\* keeps its verdict and its cache entry.
C6_Witness ==
    \E k, j \in Keys :
        /\ k # j /\ Live
        /\ compare_target_status[k] = "error" /\ files[compare_tmp_obj][k] = "none"
        /\ compare_target_status[j] \in Verdicts /\ files[compare_tmp_obj][j] # "none"

\* C7: a worker that was alive when the stop event was set takes up no
\* further target at the head of its loop (the target in flight is the only
\* one it may still finish).
C7_NoTargetAfterCancel ==
    [][\A w \in Sessions : (signalled[w] /\ wpc[w] = "loop") => wpc'[w] # "mark"]_vars

\* C8: at most one precache worker is alive at any time.
C8_OneWorkerAtATime == Cardinality({w \in Sessions : Alive(w)}) <= 1

\* C9: no step removes a temporary directory while some thread is in the
\* render-and-persist step.
C9_TeardownWaitsForRender ==
    [][(\E s \in dirs : s \notin dirs') => \A t \in Threads : ~Rendering(t)]_vars

\* C10: once the targets of a comparison are populated, every entry of the
\* status map is for a target of that comparison and was written on its
\* behalf, and every in-memory image belongs to one of its targets.
C10_NewSessionIsFresh ==
    Populated =>
        /\ \A k \in Keys : compare_target_status[k] # "absent" =>
              (k \in Range(compare_targets) /\ statusBy[k] = ncompare)
        /\ compare_render_cache \subseteq Range(compare_targets)

\* C11: the temporary directories of a session that has ended do not exist:
\* whatever is on disk (a render directory, a document below a before or
\* after directory) belongs to the session whose TemporaryDirectory objects
\* are live.
C11_NothingOutlivesSession ==
    \A s \in Sessions :
        s # compare_tmp_obj => (s \notin dirs /\ srcs[s] = {})

\* the positions inside a `with self._compare_status_lock:` block
StatusHeld == {"mark_read", "mark_write", "sel_held", "refresh_held", "hit_held",
               "rhit_held", "persist_held", "err_held"}

\* C12: the status lock is never held by a thread that runs the external
\* render or waits for the render lock: its holder is inside one of the short
\* blocks and can take its next step, which leaves the block, whatever the
\* other threads do; so a status read for the list labels never waits for a
\* render in flight.
C12_StatusLockIndependent ==
    \A t \in Threads :
        t \in lk_status =>
            /\ lk_pc[t] \in StatusHeld
            /\ lk_pc[t] \notin {"export", "saving", "render_wait"}
            /\ ENABLED LkStep(t)

\* C12 witness: the GUI thread reads the statuses for the list labels, inside
\* the status lock, while a worker runs the external render under the render
\* lock.
C12_Witness ==
    /\ lk_pc[GuiThread] = "refresh_held" /\ GuiThread \in lk_status
    /\ \E w \in Sessions : lk_pc[w] = "export" /\ w \in lk_render

\* the positions of a thread inside _ensure_compare_target_cache
InEnsure == {"start", "hit_wait", "hit_held", "render_wait", "locked", "rhit_wait",
             "rhit_held", "export", "saving", "persist_wait", "persist_held",
             "ret_ok", "ret_raise"}

\* C14: the step in which a worker leaves its test-and-set block either
\* changes no status, or changes the status of its target from pending (a
\* missing entry counts as pending) to rendering: the status it tested is the
\* status at the moment of the write, and a status advanced meanwhile by an
\* interactive selection is never replaced with rendering.
C14_WorkerMarksOnlyPending ==
    [][\A w \in Sessions :
         (lk_pc[w] = "mark_write" /\ lk_pc'[w] # "mark_write") =>
            \/ lk_stat' = lk_stat
            \/ /\ StatusGet(lk_stat, lk_key[w]) = "pending"
               /\ lk_stat' = [lk_stat EXCEPT ![lk_key[w]] = "rendering"]]_lockVars

\* C14 witness: a worker is in its test-and-set block for a target that an
\* interactive selection, still in its call, has advanced beyond pending; the
\* worker read that status and will write nothing.
C14_Witness ==
    \E w \in Sessions :
        /\ lk_pc[w] = "mark_write" /\ w \in lk_status
        /\ lk_key[GuiThread] = lk_key[w] /\ lk_pc[GuiThread] \in InEnsure
        /\ lk_cur[w] = "rendering" /\ lk_stat[lk_key[w]] = "rendering"
        /\ lk_idx[w] = 1 /\ \A u \in Sessions \ {w} : lk_pc[u] = "loop" /\ lk_idx[u] = 1

\* every target of the list has a terminal status
AllTerminal == \A k \in Range(compare_targets) : compare_target_status[k] \in Terminal

\* the GUI thread is in the teardown or the set-up that follows a cancellation
Cancelled == gpc \in {"join", "rmdirs", "clear_roots", "prepare", "populate", "detect", "closed"}

\* C13: once the precache worker of a comparison is started, every target of
\* the list comes to have a terminal status, unless the comparison is
\* cancelled (another one is opened or the window is closed) before that.
C13_EveryTargetSettles ==
    (ncompare > 0 /\ Alive(ncompare)) ~> (AllTerminal \/ Cancelled)

\* C13 witness: a comparison with two targets that was not cancelled; its
\* worker went through its list and ended, every target has a terminal status.
C13_Witness ==
    /\ ncompare > 0 /\ wpc[ncompare] = "done" /\ gpc = "idle" /\ gop = "open"
    /\ Len(compare_targets) = 2 /\ AllTerminal
    /\ \E k \in Range(compare_targets) : statusBy[k] = ncompare

\* the target's document is absent from exactly one FileSet
OneSideMissing == (before_src.kind = "absent") # (after_src.kind = "absent")

\* ... and the side that has it gives a bitmap
PresentSideRenders ==
    \/ (before_src.kind = "absent" /\ after_src.kind = "ok")
    \/ (after_src.kind = "absent" /\ before_src.kind = "ok")

\* the bitmap of the side that has the document, at the common size
PresentImage == IF before_src.kind = "absent" THEN after_src.img ELSE before_src.img

\* C15: with the document absent from exactly one side and the other side
\* rendering, the call does not raise; when it has returned, the side without
\* document holds a white bitmap of the size of the other side's, the other
\* side holds its own bitmap, and the status is same or diff.  With one side
\* absent the call raises only if the other side gives no bitmap either, and
\* the "not available" failure is raised only when neither side gives one.
C15_MissingSideIsNoError ==
    /\ (OneSideMissing /\ PresentSideRenders) =>
          /\ rd_pc # "raised" /\ rd_exc = "none"
          /\ rd_pc \in {"returned", "done"} =>
                /\ rd_status \in Verdicts
                /\ LET blank == IF before_src.kind = "absent" THEN before_img[1] ELSE after_img[1]
                       other == IF before_src.kind = "absent" THEN after_img[1] ELSE before_img[1]
                   IN /\ other = PresentImage
                      /\ blank = BlankImage(PresentImage.w, PresentImage.h)
    /\ (OneSideMissing /\ rd_pc = "raised") =>
          (before_src.kind # "ok" /\ after_src.kind # "ok")
    /\ rd_exc = "compare_image_not_available" =>
          (before_src.kind # "ok" /\ after_src.kind # "ok")

\* C15 witness: the call has returned diff for a target whose document is only
\* in the after FileSet; the before bitmap is the white one of the same size.
C15_Witness ==
    /\ rd_pc = "returned" /\ before_src.kind = "absent" /\ after_src.kind = "ok"
    /\ rd_status = "diff" /\ after_src.img.w = MaxSide
    /\ before_img = << BlankImage(after_src.img.w, after_src.img.h) >>

\* C16: when the call has succeeded for a target missing on one side, what
\* the caller has in hand differs from a normal result: the status is not a
\* plain same or diff, or the status label says something else than "ready".
C16_MissingSideVisible ==
    (rd_pc = "done" /\ OneSideMissing /\ PresentSideRenders) =>
        (rd_status \notin Verdicts \/ compare_status_label # "compare_image_status_ready")

\* a list of strings in strictly ascending order: sorted, no duplicates
Ascending(q) == \A i \in 1..(Len(q) - 1) : LexLess(q[i], q[i + 1])

\* C17: the four lists returned are, as sets, keys(after) minus keys(before),
\* keys(before) minus keys(after), the common keys whose contents differ and
\* the common keys whose contents are equal; each list is in lexicographic
\* order without duplicates; and for equal FileSets added, removed and changed
\* are empty and unchanged holds every key.
C17_FourListsAsDefined ==
    diff_pc = "returned" =>
        LET common == DOMAIN before_map \cap DOMAIN after_map IN
        /\ Range(diff_result.added) = DOMAIN after_map \ DOMAIN before_map
        /\ Range(diff_result.removed) = DOMAIN before_map \ DOMAIN after_map
        /\ Range(diff_result.changed) = {k \in common : before_map[k] # after_map[k]}
        /\ Range(diff_result.unchanged) = {k \in common : before_map[k] = after_map[k]}
        /\ Ascending(diff_result.added) /\ Ascending(diff_result.removed)
        /\ Ascending(diff_result.changed) /\ Ascending(diff_result.unchanged)
        /\ before_map = after_map =>
              /\ diff_result.added = << >> /\ diff_result.removed = << >>
              /\ diff_result.changed = << >>
              /\ Range(diff_result.unchanged) = DOMAIN before_map

\* C17 witness: the call has returned two unchanged paths, one a prefix of the
\* other, besides one added, one removed path.
C17_Witness ==
    /\ diff_pc = "returned"
    /\ Len(diff_result.unchanged) = 2 /\ Len(diff_result.unchanged[1]) = 1
    /\ Len(diff_result.unchanged[2]) = 2
    /\ diff_result.unchanged[1][1] = diff_result.unchanged[2][1]
    /\ Len(diff_result.added) = 1 /\ Len(diff_result.removed) = 1

\* C18: the four lists are pairwise disjoint and together hold exactly the
\* paths of the two FileSets.
C18_EveryPathClassifiedOnce ==
    diff_pc = "returned" =>
        LET A == Range(diff_result.added)
            R == Range(diff_result.removed)
            C == Range(diff_result.changed)
            U == Range(diff_result.unchanged)
        IN /\ A \cup R \cup C \cup U = DOMAIN before_map \cup DOMAIN after_map
           /\ A \cap R = {} /\ A \cap C = {} /\ A \cap U = {}
           /\ R \cap C = {} /\ R \cap U = {} /\ C \cap U = {}
           /\ Len(diff_result.added) + Len(diff_result.removed) + Len(diff_result.changed)
                 + Len(diff_result.unchanged)
                 = Cardinality(DOMAIN before_map \cup DOMAIN after_map)

\* C18 witness: a result with a path in each of the four lists.
C18_Witness ==
    /\ diff_pc = "returned"
    /\ diff_result.added # << >> /\ diff_result.removed # << >>
    /\ diff_result.changed # << >> /\ diff_result.unchanged # << >>

\* C19: the result for (before, after) is the result for (after, before) with
\* added and removed swapped.
C19_SymmetricUnderSwap ==
    diff_pc = "returned" =>
        LET swapped == compare_file_maps(after_map, before_map) IN
        /\ diff_result.added = swapped.removed
        /\ diff_result.removed = swapped.added
        /\ diff_result.changed = swapped.changed
        /\ diff_result.unchanged = swapped.unchanged

\* C19 witness: a result with two added paths, no removed one and a changed one.
C19_Witness ==
    /\ diff_pc = "returned"
    /\ Len(diff_result.added) = 2 /\ diff_result.removed = << >>
    /\ Len(diff_result.changed) = 1


\* the loop over zf.namelist() is over: the dict is what the function returns
ZipReturned == zip_i > Len(zip_namelist)

\* an entry of the archive is a directory entry when its name ends with "/",
\* and a file entry otherwise
IsFileEntry(n) == ~EndsWithSlash(n)

\* C20: the key set returned is exactly the set of normalized names of the
\* archive's file entries whose base name is one of the fixed file names or
\* carries one of the fixed extensions.
C20_ExactlyWhitelistedFileEntries ==
    ZipReturned =>
        zip_result = {Normalized(zip_namelist[i]) :
                        i \in {j \in 1..Len(zip_namelist) :
                                  /\ IsFileEntry(zip_namelist[j])
                                  /\ is_backup_target_path(zip_namelist[j])}}


\* C21: reading a revision does not return a FileSet when the revision's files
\* cannot be listed or the content of a retained file cannot be exported: it
\* returns only if the repository was found, the listing ended with status
\* zero and every retained file was exported.
C21_UnreadableRevisionFails ==
    gm_pc = "returned" =>
        /\ gm_root = "ok"
        /\ gm_ls = "ok"
        /\ \A i \in 1..Len(gm_lines) :
              Retained(gm_lines[i].path, gm_rel) => gm_lines[i].show = "ok"


\* C22: the merged timeline is ordered by timestamp, newest first, and has at
\* most `limit` items.
C22_NewestFirstWithinLimit ==
    tl_pc = "done" =>
        /\ Len(snapshot_items_all) <= tl_limit
        /\ \A i \in 1..(Len(snapshot_items_all) - 1) :
              snapshot_items_all[i].timestamp >= snapshot_items_all[i + 1].timestamp

\* C22 witness: archives and commits of different times were found, more than
\* the limit allows, and the timeline has items of both sources.
C22_Witness ==
    /\ tl_pc = "done"
    /\ Len(tl_backups) + Len(tl_commits) > tl_limit
    /\ Len(snapshot_items_all) = 2
    /\ snapshot_items_all[1].source = "git" /\ snapshot_items_all[2].source = "backup"
    /\ snapshot_items_all[1].timestamp > snapshot_items_all[2].timestamp
    /\ Len(tl_zips) = 2 /\ tl_zips[1].mtime < tl_zips[2].mtime


\* C23 as stated: the effective limit is the configured integer clamped to
\* the range 1..500, and 50 when no integer is configured.
C23_LimitClamped ==
    tl_pc \in {"backups", "commits", "merge", "done"} =>
        tl_limit = IF tl_raw = << >> THEN 50
                   ELSE IF tl_raw[1] < 1 THEN 1
                   ELSE IF tl_raw[1] > 500 THEN 500
                   ELSE tl_raw[1]

\* C23 amended: the effective limit is the configured integer when it is in
\* 1..500, 500 when it is above 500, and 50 when it is below 1 or when no
\* integer is configured; it is always in 1..500.
C23_LimitInRangeOrDefault ==
    tl_pc \in {"backups", "commits", "merge", "done"} =>
        /\ tl_limit \in 1..500
        /\ (tl_raw # << >> /\ tl_raw[1] \in 1..500) => tl_limit = tl_raw[1]
        /\ (tl_raw # << >> /\ tl_raw[1] > 500) => tl_limit = 500
        /\ (tl_raw = << >> \/ tl_raw[1] < 1) => tl_limit = 50

\* C23 witness: a configured 501 has given the limit 500.
C23_Witness == tl_pc = "backups" /\ tl_raw = << 501 >> /\ tl_limit = 500

\* the lines `git log` has printed, by their place
LogOk == {j \in 1..Len(LogOutput(tl_lines, tl_limit)) : tl_lines[j].kind = "ok"}

\* C24: revision discovery never raises; it yields no items when the working
\* copy is not found or the log command fails or times out; otherwise it
\* yields exactly one item for each well-formed line of the log, the other
\* lines being skipped.
C24_GitDiscoveryNeverRaises ==
    /\ tl_pc # "raised"
    /\ (tl_pc \in {"merge", "done"} /\ tl_git_path) =>
          IF tl_root = "none" \/ tl_log # "ok"
          THEN tl_commits = << >>
          ELSE /\ {tl_commits[i].identifier : i \in 1..Len(tl_commits)} = LogOk
               /\ Len(tl_commits) = Cardinality(LogOk)
               /\ \A i \in 1..Len(tl_commits) :
                     /\ tl_commits[i].source = "git"
                     /\ tl_commits[i].timestamp = tl_lines[tl_commits[i].identifier].ts

\* C24 witness: the log had a line whose time does not parse before a
\* well-formed one, and the well-formed one is the item found.
C24_Witness ==
    /\ tl_pc = "merge" /\ tl_git_path /\ tl_root = "ok" /\ tl_log = "ok"
    /\ Len(tl_lines) = 2 /\ tl_limit >= 2
    /\ tl_lines[1].kind = "time" /\ tl_lines[2].kind = "ok"
    /\ Len(tl_commits) = 1 /\ tl_commits[1].identifier = 2


\* run j exits with status zero and an SVG is in out_dir after it
ExSuccess(j) ==
    ex_runs[j].exit = "zero" /\ (ex_stale \/ \E i \in 1..j : ex_runs[i].svg)

\* the diagnostic of run j
ExDiagnostic(j) ==
    CASE ex_runs[j].exit = "timeout" -> << "TimeoutExpired", j >>
      [] ex_runs[j].exit = "zero" -> << "No SVG exported by kicad-cli" >>
      [] OTHER -> FailureText(j, ex_runs[j])

\* C25: the alternatives are run in list order; the function returns at the
\* first run that exits with status zero and leaves an SVG in out_dir, and
\* runs none after it; it fails only when every alternative has been run
\* without success, with the diagnostic of the last run as the reason.
C25_FirstSuccessInListOrder ==
    LET n == Len(ex_tried) IN
    /\ ex_tried = [j \in 1..n |-> j]
    /\ ex_pc = "returned" => (ExSuccess(n) /\ \A j \in 1..(n - 1) : ~ExSuccess(j))
    /\ ex_pc = "raised" =>
          /\ n = Len(commands(ex_kind, ex_layer))
          /\ \A j \in 1..n : ~ExSuccess(j)
          /\ ex_exc = ExDiagnostic(n)

\* C26: a run that exceeds its timeout counts as a failed run: if it was not
\* the last alternative, the next alternative is run after it (and no command
\* is run twice).
C26_TimeoutTriesNextAlternative ==
    /\ \A i, j \in 1..Len(ex_tried) : ex_tried[i] = ex_tried[j] => i = j
    /\ \A j \in 1..Len(ex_tried) :
          (ex_runs[ex_tried[j]].exit = "timeout" /\ ex_tried[j] < Len(commands(ex_kind, ex_layer)))
             => (ex_pc = "loop" \/ Len(ex_tried) > j)


\* the keys of either FileSet with the suffix
KeysWithSuffix(suffix) == {q \in tg_before \cup tg_after : DocSuffix(q[Len(q)]) = suffix}

\* the layer names found in either side's document of the board
LayersOf(q) ==
    (IF q \in tg_before THEN {tg_layers.before[q][i] : i \in 1..Len(tg_layers.before[q])} ELSE {})
        \cup (IF q \in tg_after THEN {tg_layers.after[q][i] : i \in 1..Len(tg_layers.after[q])} ELSE {})

\* C27: the targets found are exactly one sheet target for each .kicad_sch
\* path of either FileSet and, for each .kicad_pcb path of either FileSet, the
\* whole-board target and one target for each layer name found in either
\* side's document; no target occurs twice.
C27_ExactlyTheTargets ==
    tg_pc = "done" =>
        /\ {tg_targets[i] : i \in 1..Len(tg_targets)} =
              {Target("sch", q, NoLayer) : q \in KeysWithSuffix(".kicad_sch")}
                 \cup {Target("pcb", q, NoLayer) : q \in KeysWithSuffix(".kicad_pcb")}
                 \cup UNION {{Target("pcb", q, l) : l \in LayersOf(q)} :
                               q \in KeysWithSuffix(".kicad_pcb")}
        /\ \A i, j \in 1..Len(tg_targets) : tg_targets[i] = tg_targets[j] => i = j


\* the place of the first occurrence of layer l in the layers found for q,
\* those of the before side first
FirstSeenAt(q, l) ==
    LET found == BoardLayers(q) IN
    CHOOSE i \in 1..Len(found) : found[i] = l /\ \A j \in 1..(i - 1) : found[j] # l

\* C28: sheet targets come before board targets and are sorted by path; board
\* targets are grouped by path in sorted order; within a board path the
\* whole-board target comes first and the layer targets follow in the order in
\* which the layers were first found, the before side's layers first.
C28_TargetsInOrder ==
    \A i, j \in 1..Len(tg_targets) :
        i < j =>
            LET s == tg_targets[i]
                t == tg_targets[j]
            IN
            /\ s.kind = "pcb" => t.kind = "pcb"
            /\ (s.kind = "sch" /\ t.kind = "sch") => LexLess(s.path, t.path)
            /\ (s.kind = "pcb" /\ t.kind = "pcb") =>
                  \/ LexLess(s.path, t.path)
                  \/ /\ s.path = t.path
                     /\ t.layer # NoLayer
                     /\ s.layer # NoLayer =>
                           FirstSeenAt(s.path, s.layer) < FirstSeenAt(t.path, t.layer)

\* C28 witness: two sheets and two boards were found; the first board has the
\* layer F.Cu on the before side and B.Cu, F.Cu on the after side, and its
\* targets are whole board, F.Cu, B.Cu.
C28_Witness ==
    /\ tg_pc = "done"
    /\ Len(tg_targets) >= 6
    /\ tg_targets[1].kind = "sch" /\ tg_targets[2].kind = "sch"
    /\ tg_targets[3] = Target("pcb", << 3 >>, NoLayer)
    /\ tg_targets[4] = Target("pcb", << 3 >>, "F.Cu")
    /\ tg_targets[5] = Target("pcb", << 3 >>, "B.Cu")
    /\ tg_targets[6] = Target("pcb", << 4 >>, NoLayer)
    /\ tg_layers.after[<< 3 >>] = << "B.Cu", "F.Cu" >>


\* C29: padding a bitmap twice to the same width and height gives what
\* padding it once gives, for the bitmaps of both sides and every size,
\* smaller or larger than the bitmap.
C29_PadIdempotent ==
    \A side \in {before_src, after_src} :
        (rd_pc # "off" /\ side.kind = "ok") =>
            \A w \in 1..(MaxSide + 1), h \in 1..(MaxSide + 1) :
                pad_image(pad_image(side.img, w, h), w, h) = pad_image(side.img, w, h)

\* C29 witness: the render has padded the narrower before bitmap, which has
\* ink, to the width of the after bitmap, and padding the result again to
\* that size leaves it as it is.
C29_Witness ==
    /\ rd_pc = "returned"
    /\ before_src.kind = "ok" /\ after_src.kind = "ok"
    /\ before_src.img.w < after_src.img.w
    /\ \E p \in Pixels(before_src.img.w, before_src.img.h) : before_src.img.px[p] = Ink
    /\ before_img[1] # before_src.img
    /\ before_img[1] = pad_image(before_src.img, after_img[1].w, after_img[1].h)
    /\ pad_image(before_img[1], after_img[1].w, after_img[1].h) = before_img[1]

\* C30: for the two bitmaps of equal size of a finished render,
\* images_different is true exactly when make_pixel_diff_image of them has a
\* pixel of the highlight colour.
C30_DifferentIffHighlight ==
    rd_pc = "returned" =>
        LET d == make_pixel_diff_image(before_img[1], after_img[1]) IN
        images_different(before_img[1], after_img[1])
            <=> \E p \in Pixels(d.w, d.h) : d.px[p] = Red


\* C33: no directory entry of the archive becomes a key: every key is the
\* normalized name of a file entry of the archive.
C33_NoDirectoryEntryIsKey ==
    \A k \in zip_result :
        \E j \in 1..Len(zip_namelist) :
            IsFileEntry(zip_namelist[j]) /\ Normalized(zip_namelist[j]) = k


\* the items of every archive found whose stat() works and of every
\* well-formed line the log has printed
Discovered ==
    {SnapshotItem("backup", i, tl_zips[i].mtime) : i \in {j \in 1..Len(tl_zips) : tl_zips[j].stat}}
        \cup (IF tl_git_path /\ tl_root = "ok" /\ tl_log = "ok"
              THEN {SnapshotItem("git", i, tl_lines[i].ts) : i \in LogOk}
              ELSE {})

\* C39: the merged timeline holds the `limit` newest of the discovered
\* archives and listed revisions: its items are discovered ones, an item is
\* left out only when the timeline is full, and no item left out is strictly
\* newer than an item of the timeline.
C39_TruncationLosesNothing ==
    tl_pc = "done" =>
        LET included == {snapshot_items_all[i] : i \in 1..Len(snapshot_items_all)}
            left_out == Discovered \ included
        IN
        /\ included \subseteq Discovered
        /\ left_out # {} => Len(snapshot_items_all) = tl_limit
        /\ \A x \in left_out, y \in included : x.timestamp <= y.timestamp

\* C39 witness: with the limit 1, two archives of which the second found is
\* the newer, and a listed commit, the timeline is the second archive.
C39_Witness ==
    /\ tl_pc = "done" /\ tl_limit = 1
    /\ Len(tl_zips) = 2 /\ tl_zips[1].stat /\ tl_zips[2].stat
    /\ tl_zips[1].mtime < tl_zips[2].mtime
    /\ Len(tl_backups) = 1 /\ Len(tl_commits) = 1
    /\ snapshot_items_all = << SnapshotItem("backup", 2, tl_zips[2].mtime) >>


\* the three bitmaps of target k are on disk and no thread is still writing
\* one of them
Complete(k) ==
    /\ lk_png[k] # "none"
    /\ \A u \in Threads : ~(lk_pc[u] = "saving" /\ lk_key[u] = k)

\* C35: whenever a call of _ensure_compare_target_cache returns the three
\* cache paths of a target, the three bitmap files have been completely
\* written: no other thread is still saving one of them.
C35_ReturnedEntryIsComplete ==
    \A t \in Threads : lk_pc[t] = "ret_ok" => Complete(lk_key[t])


\* the positions inside the `with self._compare_render_lock:` block
RenderHeld == {"locked", "rhit_wait", "rhit_held", "export", "saving",
               "persist_wait", "persist_held"}

\* C36: the render lock is never requested by a thread that holds the status
\* lock; a thread holds a lock only inside the block that took it, so a lock
\* is released however the block is left; and whenever a thread waits for a
\* lock, the lock is free or its holder can take a step, or waits for the
\* status lock whose holder can take a step: no set of threads waits in a
\* circle.
C36_NoDeadlock ==
    /\ \A t \in Threads :
         /\ lk_pc[t] = "render_wait" => t \notin lk_status
         /\ t \in lk_status => lk_pc[t] \in StatusHeld
         /\ t \in lk_render => lk_pc[t] \in RenderHeld
    /\ (\E t \in Threads : lk_pc[t] \in StatusWaits) =>
         \/ lk_status = {}
         \/ \E u \in lk_status : ENABLED LkStep(u)
    /\ (\E t \in Threads : lk_pc[t] = "render_wait") =>
         \/ lk_render = {}
         \/ \E u \in lk_render :
              \/ ENABLED LkStep(u)
              \/ /\ lk_pc[u] \in StatusWaits
                 /\ \E x \in lk_status : ENABLED LkStep(x)

\* C36 witness: a worker holds the render lock and waits for the status lock
\* to record its verdict, the GUI thread holds the status lock to read the
\* statuses, and another worker waits for the render lock after a render of
\* its own has raised.
C36_Witness ==
    /\ lk_pc[GuiThread] = "refresh_held" /\ GuiThread \in lk_status
    /\ \E w \in Sessions :
         /\ lk_pc[w] = "persist_wait" /\ w \in lk_render
         /\ \E u \in Sessions \ {w} : lk_pc[u] = "render_wait" /\ lk_stat[1] = "error"


\* C32: in every state of a session (its list is populated and its
\* directories are live), a target of the list whose status is same or diff
\* has its three bitmaps in the session's cache directory, and the status is
\* the verdict images_different gives on the cached before and after bitmaps.
C32_VerdictMatchesCache ==
    (Live /\ Populated) =>
        \A k \in Range(compare_targets) :
            compare_target_status[k] \in Verdicts =>
                files[compare_render_root][k] = compare_target_status[k]

\* min(max(n, 1), 2000)
Clamp(n) == Min(Max(n, 1), 2000)

\* C31 as stated: the width and the height of the bitmap are the intrinsic
\* width and height, each clamped to at least 1 and at most 2000.
C31_SizeClamped ==
    sz_pc = "returned" => sz_image = << Clamp(sz_width), Clamp(sz_height) >>

\* C31: each side of the bitmap is the intrinsic size when that lies in
\* [1, 2000], 2000 when it is above 2000, and the default (1400 for the
\* width, 1000 for the height) when it is not positive.
C31_SizeInRangeOrDefault ==
    sz_pc = "returned" =>
        /\ Len(sz_image) = 2
        /\ sz_image[1] = (IF sz_width <= 0 THEN 1400 ELSE Clamp(sz_width))
        /\ sz_image[2] = (IF sz_height <= 0 THEN 1000 ELSE Clamp(sz_height))

\* C31 witness: a document 4000 wide and without a height is rendered 2000
\* by 1000.
C31_Witness ==
    /\ sz_pc = "returned" /\ sz_width = 4000 /\ sz_height = 0
    /\ sz_image = << 2000, 1000 >>


\* the listing attempt j gives at least one layer name: it ends with return
\* code 0 and a line of its output begins with a name that contains a "."
YieldsLayers(j) ==
    /\ ly_runs[j].exit = "zero"
    /\ \E i \in 1..Len(ly_runs[j].lines) : ly_runs[j].lines[i] \in DottedTokens

\* C34: the result of detect_pcb_layers is the textual scan of the document
\* exactly when no listing attempt gives a layer name (each fails or lists
\* none); otherwise it is the names of the first attempt that gives any,
\* without the scan being consulted.
C34_ScanOnlyAsFallback ==
    ly_pc = "returned" =>
        /\ ly_from = "scan" <=> \A j \in 1..2 : ~YieldsLayers(j)
        /\ ly_from = "scan" => ly_layers = ly_scan
        /\ ly_from = "listing" =>
             \E j \in 1..2 :
                /\ YieldsLayers(j)
                /\ \A h \in 1..(j - 1) : ~YieldsLayers(h)
                /\ ly_layers # << >>
                /\ Range(ly_layers) = Range(ly_runs[j].lines) \cap DottedTokens

\* C34 witness: the first command raises, the second ends with return code 0
\* and prints a word that is no layer name and a blank line; the layers are
\* those the scan of the document finds.
C34_Witness ==
    /\ ly_pc = "returned" /\ ly_from = "scan"
    /\ ly_runs[1].exit = "raise"
    /\ ly_runs[2].exit = "zero" /\ ly_runs[2].lines = << "Layer", "" >>
    /\ ly_scan = << "B.Cu", "F.Cu" >> /\ ly_layers = ly_scan


\* C38: two different targets of one list have different status keys, no
\* cache file in common and different export directories.
C38_NoSharedStorage ==
    nm_pc = "done" =>
        /\ nm_keys[1] # nm_keys[2]
        /\ nm_cache[1] \cap nm_cache[2] = {}
        /\ nm_dirs[1] # nm_dirs[2]


\* C40: the archive written by create_project_backup, read back by
\* build_backup_zip_map, gives the map build_current_project_map gives for
\* the unchanged directory: the same relative paths with the same bytes.
C40_BackupRoundTrip ==
    rt_pc = "done" => rt_back = rt_current


\* C37: after a request whose load of the sources failed, the widget of
\* targets is empty and no precache worker goes on rendering: a worker still
\* alive has been told to stop.
C37_FailedLoadLeavesNothing ==
    ld_last = "failed" =>
        /\ ld_list = << >>
        /\ \A w \in Sessions : ld_worker[w] \in {"loop", "rendering"} => ld_stop

====
